---- MODULE Spec2Model ----
(***************************************************************************)
(* Model of the Pinata IPFS image uploader plugin (src/src/main.ts):       *)
(* the document rewriter processFile, the upload helper handleImageUpload, *)
(* the backup helper backupImage and the batch drivers processFolder and   *)
(* processAllFiles.                                                        *)
(*                                                                         *)
(* Text.  A note is a sequence of symbols.  The five characters the image  *)
(* regular expression distinguishes, "!", "[", "]", "(" and ")", are       *)
(* symbols of their own; every other symbol is an atom that stands for a   *)
(* fixed run of characters containing none of those five ("cat.png",       *)
(* "hello ", "ipfs://", a CID, a URL, ...).  No atom is a substring of a   *)
(* concatenation of other symbols, so the JavaScript string operations     *)
(* (matchAll, replace, includes, endsWith) act on symbols exactly as they  *)
(* act on the characters.                                                  *)
(***************************************************************************)
EXTENDS Integers, Sequences, FiniteSets, TLC

(***************************************************************************)
(* Bounds of the model.                                                    *)
(***************************************************************************)
\* number of image pieces a generated note holds at most
MaxPieces == 2

(***************************************************************************)
(* Strings.                                                                *)
(***************************************************************************)
\* s.indexOf(ch, i) on symbols, 1-based; 0 when ch does not occur from i on
FirstAt(s, ch, i) ==
  IF \E j \in i..Len(s) : s[j] = ch
  THEN CHOOSE j \in i..Len(s) : s[j] = ch /\ \A k \in i..(j - 1) : s[k] # ch
  ELSE 0

\* s.trim(): the text without its leading and trailing white space
RECURSIVE Trim(_)
Trim(s) ==
  IF s = <<>> THEN s
  ELSE IF Head(s) = " " THEN Trim(Tail(s))
  ELSE IF s[Len(s)] = " " THEN Trim(SubSeq(s, 1, Len(s) - 1))
  ELSE s

\* s.includes(x) for a one-symbol x
Includes(s, x) == \E i \in 1..Len(s) : s[i] = x

\* does pat occur in s at position i
OccursAt(s, pat, i) ==
  /\ i >= 1
  /\ i + Len(pat) - 1 <= Len(s)
  /\ SubSeq(s, i, i + Len(pat) - 1) = pat

\* s.indexOf(pat) for a sequence pat, 1-based; 0 when pat does not occur
IndexOf(s, pat) ==
  IF \E i \in 1..Len(s) : OccursAt(s, pat, i)
  THEN CHOOSE i \in 1..Len(s) :
         OccursAt(s, pat, i) /\ \A k \in 1..(i - 1) : ~OccursAt(s, pat, k)
  ELSE 0

\* The replacement patterns of String.prototype.replace: "$&" in the
\* replacement string stands for the matched text.  ("$$", "$`", "$'" and
\* "$1" are not in the alphabet of the model.)
RECURSIVE GetSubstitution(_, _)
GetSubstitution(repl, matched) ==
  IF repl = <<>> THEN <<>>
  ELSE (IF Head(repl) = "$&" THEN matched ELSE <<Head(repl)>>)
         \o GetSubstitution(Tail(repl), matched)

\* newContent.replace(fullMatch, repl): a string pattern replaces its first
\* occurrence only
ReplaceFirst(s, pat, repl) ==
  LET i == IndexOf(s, pat) IN
  IF i = 0 THEN s
  ELSE SubSeq(s, 1, i - 1) \o GetSubstitution(repl, pat)
         \o SubSeq(s, i + Len(pat), Len(s))

(***************************************************************************)
(* The image regular expression imageRegex of processFile: "![", an alt   *)
(* text without "]", "](", a non-empty path without ")", and ")".          *)
(***************************************************************************)
NoMatch == [start |-> 0, end |-> 0, alt |-> <<>>, path |-> <<>>]

\* the match of imageRegex that starts at position i, or NoMatch
imageRegexAt(s, i) ==
  IF i + 1 > Len(s) \/ s[i] # "!" \/ s[i + 1] # "[" THEN NoMatch
  ELSE LET j == FirstAt(s, "]", i + 2) IN
       IF j = 0 \/ j + 1 > Len(s) THEN NoMatch
       ELSE IF s[j + 1] # "(" THEN NoMatch
       ELSE LET k == FirstAt(s, ")", j + 2) IN
            IF k = 0 \/ k = j + 2 THEN NoMatch
            ELSE [start |-> i, end |-> k,
                  alt |-> SubSeq(s, i + 2, j - 1),
                  path |-> SubSeq(s, j + 2, k - 1)]

\* content.matchAll(imageRegex): the non-overlapping matches, left to right
RECURSIVE MatchAllFrom(_, _)
MatchAllFrom(s, i) ==
  IF i > Len(s) THEN <<>>
  ELSE LET m == imageRegexAt(s, i) IN
       IF m.start = 0 THEN MatchAllFrom(s, i + 1)
       ELSE <<m>> \o MatchAllFrom(s, m.end + 1)

matchAll(s) == MatchAllFrom(s, 1)

\* fullMatch of a match of the text s
FullMatch(s, m) == SubSeq(s, m.start, m.end)

(***************************************************************************)
(* The expression imageRegexEscaped of processFile: "![", an alt text     *)
(* without "]", "](", the escaped imagePath, and ")"; flag g.              *)
(***************************************************************************)
\* The source of a pattern is a sequence of pairs: <<"\\", a>> is the text
\* a with every special character escaped, <<"", a>> is the text a as it
\* stands.  escapeRegExp puts "\\" before every character that is special
\* in a regular expression.
escapeRegExp(imagePath) ==
  [k \in 1..Len(imagePath) |-> <<"\\", imagePath[k]>>]

\* the texts of the alphabet a text matches when it is read as a pattern
\* without escapes: "." stands for any character; a text in which a
\* character is an operator that keeps the text from matching itself ("?"
\* makes the character before it optional, "+" repeats it, "$" is the end
\* of the input) matches no text of the alphabet, itself included; and "[",
\* "(" and ")" are no text at all but the brackets of a class and of a group
UnescapedMatches(a) ==
  IF a = "cat.png" THEN {"cat.png", "cat_png"}
  ELSE IF a \in {"$&", "?", "data:image/svg+xml", "[", "(", ")",
                 "https://example.com/a.png?w=100",
                 "https://images.weserv.nl/?url=example.com/a.jpg",
                 "https://images.weserv.nl/?url=https://example.com/a.jpg",
                 "https://app.vercel.app/_next/image?url=/a.png&w=640",
                 "https://demo.imgix.net/a.png?w=100",
                 "https://i0.wp.com/example.com/a.jpg?w=100",
                 "https://firebasestorage.googleapis.com/o/a.png?alt=media"}
  THEN {}
  ELSE {a}

\* new RegExp(source) throws SyntaxError: outside a class, an unescaped "("
\* opens a group that nothing closes (a path holds no ")"), an unescaped
\* ")" closes none, and an unescaped "[" opens a class that no "]" ends
RegExpThrows(source) ==
  LET Open(k) == source[k] = <<"", "[">>
      Close(k) == source[k] = <<"", "]">>
      InClass(k) ==
        \E i \in 1..(k - 1) :
          Open(i) /\ ~\E j \in (i + 1)..(k - 1) : Close(j)
  IN
  \E k \in 1..Len(source) :
    /\ source[k][1] = ""
    /\ ~InClass(k)
    /\ \/ source[k][2] \in {"(", ")"}
       \/ Open(k) /\ ~\E j \in (k + 1)..Len(source) : Close(j)

\* new RegExp(source): the pattern source matches the text of s at i
RegExpMatchesAt(s, source, i) ==
  /\ i >= 1
  /\ i + Len(source) - 1 <= Len(s)
  /\ \A k \in 1..Len(source) :
       IF source[k][1] = "\\"
       THEN s[i + k - 1] = source[k][2]
       ELSE s[i + k - 1] \in UnescapedMatches(source[k][2])

\* end position of the match of the escaped expression at i, or 0
imageRegexEscapedAt(s, imagePath, i) ==
  IF i + 1 > Len(s) \/ s[i] # "!" \/ s[i + 1] # "[" THEN 0
  ELSE LET j == FirstAt(s, "]", i + 2)
           p == escapeRegExp(imagePath) IN
       IF j = 0 \/ j + 1 > Len(s) THEN 0
       ELSE IF s[j + 1] # "(" THEN 0
       ELSE IF ~RegExpMatchesAt(s, p, j + 2) THEN 0
       ELSE IF j + 2 + Len(p) > Len(s) THEN 0
       ELSE IF s[j + 2 + Len(p)] # ")" THEN 0
       ELSE j + 2 + Len(p)

\* newContent.replace(imageRegexEscaped, repl) with the g flag: every
\* non-overlapping match, left to right
RECURSIVE ReplaceAllFrom(_, _, _, _)
ReplaceAllFrom(s, imagePath, repl, i) ==
  IF i > Len(s) THEN <<>>
  ELSE LET e == imageRegexEscapedAt(s, imagePath, i) IN
       IF e = 0 THEN <<s[i]>> \o ReplaceAllFrom(s, imagePath, repl, i + 1)
       ELSE GetSubstitution(repl, SubSeq(s, i, e))
              \o ReplaceAllFrom(s, imagePath, repl, e + 1)

ReplaceAll(s, imagePath, repl) == ReplaceAllFrom(s, imagePath, repl, 1)

\* the template literal `![${alt}](${url})`
Wrap(alt, url) == <<"!", "[">> \o alt \o <<"]", "(">> \o url \o <<")">>

(***************************************************************************)
(* The alphabet of the notes and what the string functions of the code     *)
(* give on its atoms.                                                      *)
(***************************************************************************)
\* decodeURIComponent of one atom
DecodeAtom(a) == IF a = "cat%2Epng" THEN "cat.png" ELSE a

\* decodeURIComponent throws URIError on a malformed escape sequence, the
\* atom "%E0%A4%A"
decodeURIComponentThrows(imagePath) ==
  \E i \in 1..Len(imagePath) : imagePath[i] = "%E0%A4%A"

decodeURIComponent(imagePath) ==
  [i \in 1..Len(imagePath) |-> DecodeAtom(imagePath[i])]

\* the texts of seq joined by sep
RECURSIVE JoinWith(_, _)
JoinWith(seq, sep) ==
  IF seq = <<>> THEN ""
  ELSE IF Len(seq) = 1 THEN seq[1]
  ELSE seq[1] \o sep \o JoinWith(Tail(seq), sep)

\* new URL(x) of a URL atom: hostname as its labels, parts is
\* pathname.split("/"), url the value of the query parameter "url" ("" when
\* absent), tail the image extension the lower-cased text ends with ("" when
\* it ends with none) and ext the image extension the pathname ends with
Parsed(hostname, parts, url, tail, ext) ==
  [hostname |-> hostname, parts |-> parts, url |-> url, tail |-> tail,
   ext |-> ext]

URL ==
  [a \in {"https://example.com/a.png", "https://example.com/page",
          "https://images.weserv.nl/?url=https://example.com/a.jpg",
          "https://gateway.pinata.cloud/ipfs/bafyCat",
          "https://example.com/a.png?w=100",
          "https://example.com/a.jpg",
          "https://res.cloudinary.com/demo/image/upload/w_200,c_fill/v1/foo/bar.png",
          "https://res.cloudinary.com/demo/image/upload/bar.png",
          "https://demo.imgix.net/a.png?w=100",
          "https://demo.imgix.net/a.png",
          "https://images.weserv.nl/?url=example.com/a.jpg",
          "https://cdn.shopify.com/s/photo_master_100x100.jpg",
          "https://cdn.shopify.com/s/photo_master.jpg",
          "https://cdn.shopify.com/s/photo.jpg",
          "https://app.vercel.app/_next/image?url=/a.png&w=640",
          "https://ucarecdn.com/uuid/-/resize/200x/",
          "https://ucarecdn.com/uuid",
          "https://i0.wp.com/example.com/a.jpg?w=100",
          "https://firebasestorage.googleapis.com/o/a.png?alt=media"} |->
     CASE a = "https://example.com/a.png" ->
            Parsed(<<"example", "com">>, <<"", "a.png">>, "", ".png", ".png")
       [] a = "https://example.com/page" ->
            Parsed(<<"example", "com">>, <<"", "page">>, "", "", "")
       [] a = "https://images.weserv.nl/?url=https://example.com/a.jpg" ->
            Parsed(<<"images", "weserv", "nl">>, <<"", "">>,
                   "https://example.com/a.jpg", ".jpg", "")
       [] a = "https://gateway.pinata.cloud/ipfs/bafyCat" ->
            Parsed(<<"gateway", "pinata", "cloud">>,
                   <<"", "ipfs", "bafyCat">>, "", "", "")
       [] a = "https://example.com/a.png?w=100" ->
            Parsed(<<"example", "com">>, <<"", "a.png">>, "", "", ".png")
       [] a = "https://example.com/a.jpg" ->
            Parsed(<<"example", "com">>, <<"", "a.jpg">>, "", ".jpg", ".jpg")
       [] a = "https://res.cloudinary.com/demo/image/upload/w_200,c_fill/v1/foo/bar.png" ->
            Parsed(<<"res", "cloudinary", "com">>,
                   <<"", "demo", "image", "upload", "w_200,c_fill", "v1",
                     "foo", "bar.png">>, "", ".png", ".png")
       [] a = "https://res.cloudinary.com/demo/image/upload/bar.png" ->
            Parsed(<<"res", "cloudinary", "com">>,
                   <<"", "demo", "image", "upload", "bar.png">>, "", ".png",
                   ".png")
       [] a = "https://demo.imgix.net/a.png?w=100" ->
            Parsed(<<"demo", "imgix", "net">>, <<"", "a.png">>, "", "",
                   ".png")
       [] a = "https://demo.imgix.net/a.png" ->
            Parsed(<<"demo", "imgix", "net">>, <<"", "a.png">>, "", ".png",
                   ".png")
       [] a = "https://images.weserv.nl/?url=example.com/a.jpg" ->
            Parsed(<<"images", "weserv", "nl">>, <<"", "">>,
                   "example.com/a.jpg", ".jpg", "")
       [] a = "https://cdn.shopify.com/s/photo_master_100x100.jpg" ->
            Parsed(<<"cdn", "shopify", "com">>,
                   <<"", "s", "photo_master_100x100.jpg">>, "", ".jpg",
                   ".jpg")
       [] a = "https://cdn.shopify.com/s/photo_master.jpg" ->
            Parsed(<<"cdn", "shopify", "com">>,
                   <<"", "s", "photo_master.jpg">>, "", ".jpg", ".jpg")
       [] a = "https://cdn.shopify.com/s/photo.jpg" ->
            Parsed(<<"cdn", "shopify", "com">>, <<"", "s", "photo.jpg">>,
                   "", ".jpg", ".jpg")
       [] a = "https://app.vercel.app/_next/image?url=/a.png&w=640" ->
            Parsed(<<"app", "vercel", "app">>, <<"", "_next", "image">>,
                   "/a.png", "", "")
       [] a = "https://ucarecdn.com/uuid/-/resize/200x/" ->
            Parsed(<<"ucarecdn", "com">>,
                   <<"", "uuid", "-", "resize", "200x", "">>, "", "", "")
       [] a = "https://ucarecdn.com/uuid" ->
            Parsed(<<"ucarecdn", "com">>, <<"", "uuid">>, "", "", "")
       [] a = "https://i0.wp.com/example.com/a.jpg?w=100" ->
            Parsed(<<"i0", "wp", "com">>, <<"", "example.com", "a.jpg">>,
                   "", "", ".jpg")
       [] a = "https://firebasestorage.googleapis.com/o/a.png?alt=media" ->
            Parsed(<<"firebasestorage", "googleapis", "com">>,
                   <<"", "o", "a.png">>, "", "", ".png")]

\* new URL(x) succeeds: x is one of the URL atoms (every other path of the
\* model is a relative path or starts with "![")
ParsesAsUrl(x) == Len(x) = 1 /\ x[1] \in DOMAIN URL

\* x.includes("ipfs://") and x.includes("pinata.cloud")
IncludesIpfs(x) == Includes(x, "ipfs://")
IncludesPinata(x) == Includes(x, "https://gateway.pinata.cloud/ipfs/bafyCat")

isRemoteUrl(x) == ParsesAsUrl(x)

\* parsedUrl.origin and parsedUrl.pathname of the URL atoms (all https)
Origin(u) == "https://" \o JoinWith(u.hostname, ".")
Pathname(u) == JoinWith(u.parts, "/")

\* hostname.match(/.*\.<labels>$/): the hostname ends with "." and labels
EndsWithDot(hostname, labels) ==
  /\ Len(hostname) > Len(labels)
  /\ SubSeq(hostname, Len(hostname) - Len(labels) + 1, Len(hostname)) = labels

\* the hostnames whose case returns `${parsedUrl.origin}${pathname}`
OriginPathnameHosts ==
  { <<"imgix", "net">>, <<"imagekit", "io">>, <<"akamaized", "net">>,
    <<"fastly", "net">>, <<"b-cdn", "net">>, <<"kxcdn", "com">>,
    <<"cloudfront", "net">>, <<"sirv", "com">> }

\* pathname.replace(/_(small|...|[0-9]+x[0-9]+|...|master)\./, ".") on the
\* file names of the model: the first size suffix that stands before a "."
\* is removed
ShopifyReplace(name) ==
  CASE name = "photo_master_100x100.jpg" -> "photo_master.jpg"
    [] name = "photo_master.jpg" -> "photo.jpg"
    [] OTHER -> name

\* pathname.split("/-/")[0], on the parts of the pathname
RECURSIVE BeforeDash(_)
BeforeDash(parts) ==
  IF parts = <<>> \/ Head(parts) = "-" THEN <<>>
  ELSE <<Head(parts)>> \o BeforeDash(Tail(parts))

\* wpcomUrl.startsWith("http"), for the first part of the pathname
StartsWithHttp(part) == part \in {"http:", "https:"}

\* the Cloudinary case: cloudName and the last part of the pathname
cloudinary(u) ==
  "https://res.cloudinary.com/" \o u.parts[2] \o "/image/upload/"
    \o u.parts[Len(u.parts)]

\* extractOriginalUrl: the switch on the hostname; a text that does not
\* parse is returned by the catch
extractOriginalUrl(x) ==
  IF ~ParsesAsUrl(x) THEN x[1]
  ELSE LET u == URL[x[1]]
           hostname == u.hostname
       IN
       IF hostname \in {<<"wsrv", "nl">>, <<"images", "weserv", "nl">>}
       THEN (IF u.url # "" THEN u.url ELSE x[1])
       ELSE IF hostname = <<"res", "cloudinary", "com">>
       THEN (IF Len(u.parts) > 4 THEN cloudinary(u) ELSE x[1])
       ELSE IF \E l \in OriginPathnameHosts : EndsWithDot(hostname, l)
       THEN Origin(u) \o Pathname(u)
       ELSE IF hostname \in { <<"i0", "wp", "com">>, <<"i1", "wp", "com">>,
                              <<"i2", "wp", "com">>, <<"i3", "wp", "com">> }
       THEN (IF Len(u.parts) > 1 /\ StartsWithHttp(u.parts[2])
             THEN JoinWith(Tail(u.parts), "/") ELSE x[1])
       ELSE IF hostname = <<"firebasestorage", "googleapis", "com">>
       THEN x[1]
       ELSE IF EndsWithDot(hostname, <<"shopify", "com">>)
       THEN Origin(u)
              \o JoinWith([k \in 1..Len(u.parts) |->
                             ShopifyReplace(u.parts[k])], "/")
       ELSE IF hostname = <<"images", "ctfassets", "net">>
       THEN Origin(u) \o Pathname(u)
       ELSE IF hostname = <<"ucarecdn", "com">>
       THEN Origin(u) \o JoinWith(BeforeDash(u.parts), "/")
       ELSE IF EndsWithDot(hostname, <<"vercel", "app">>)
       THEN (IF u.url # "" THEN u.url ELSE x[1])
       ELSE x[1]

\* cdnPatterns: [dot |-> the pattern starts with "\.", labels |-> the labels
\* the hostname must end with]
cdnPatterns ==
  << [dot |-> TRUE, labels |-> <<"cloudfront", "net">>],
     [dot |-> TRUE, labels |-> <<"akamaized", "net">>],
     [dot |-> TRUE, labels |-> <<"fastly", "net">>],
     [dot |-> TRUE, labels |-> <<"b-cdn", "net">>],
     [dot |-> TRUE, labels |-> <<"kxcdn", "com">>],
     [dot |-> TRUE, labels |-> <<"imgix", "net">>],
     [dot |-> TRUE, labels |-> <<"imagekit", "io">>],
     [dot |-> TRUE, labels |-> <<"sirv", "com">>],
     [dot |-> TRUE, labels |-> <<"shopify", "com">>],
     [dot |-> TRUE, labels |-> <<"vercel", "app">>],
     [dot |-> TRUE, labels |-> <<"cloudinary", "com">>],
     [dot |-> FALSE, labels |-> <<"images", "weserv", "nl">>],
     [dot |-> FALSE, labels |-> <<"wsrv", "nl">>],
     [dot |-> TRUE, labels |-> <<"wp", "com">>],
     [dot |-> FALSE, labels |-> <<"ucarecdn", "com">>],
     [dot |-> FALSE, labels |-> <<"images", "ctfassets", "net">>],
     [dot |-> FALSE, labels |-> <<"firebasestorage", "googleapis", "com">>] >>

PatternTest(pat, hostname) ==
  LET n == Len(pat.labels)
      h == Len(hostname) IN
  /\ h >= n + (IF pat.dot THEN 1 ELSE 0)
  /\ SubSeq(hostname, h - n + 1, h) = pat.labels

isKnownCdnDomain(hostname) ==
  \E i \in 1..Len(cdnPatterns) : PatternTest(cdnPatterns[i], hostname)

imageExtensions ==
  {".jpg", ".jpeg", ".png", ".gif", ".webp", ".bmp", ".tiff", ".svg"}

isImageUrl(x) == ParsesAsUrl(x) /\ URL[x[1]].tail \in imageExtensions

(***************************************************************************)
(* The vault.                                                              *)
(***************************************************************************)
Folders == {"/", "sub", "sub/deep", "img"}

\* folder.children of the vault with notes, and of a vault without notes
TreeChildren ==
  [f \in Folders |->
     CASE f = "/" -> <<"a.md", "cat.png", "sub", "img">>
       [] f = "sub" -> <<"sub/b.md", "sub/c.md", "sub/deep">>
       [] f = "sub/deep" -> <<"sub/deep/notes.txt">>
       [] f = "img" -> <<"img/readme.txt">>]

EmptyChildren ==
  [f \in Folders |->
     CASE f = "/" -> <<"cat.png", "img">>
       [] f = "sub" -> <<>>
       [] f = "sub/deep" -> <<>>
       [] f = "img" -> <<"img/readme.txt">>]

MdFiles == {"a.md", "sub/b.md", "sub/c.md"}

\* file instanceof TFile && file.extension === "md"
IsMarkdownFile(p) == p \in MdFiles

\* the image files of the vault, by the link text that resolves to them
VaultImages == {"cat.png"}

\* metadataCache.getFirstLinkpathDest(decodedPath, file.path): the image
\* file, or "" for null
getFirstLinkpathDest(decodedPath) ==
  IF Len(decodedPath) = 1 /\ decodedPath[1] \in VaultImages
  THEN decodedPath[1] ELSE ""

RECURSIVE SelectMd(_)
SelectMd(files) ==
  IF files = <<>> THEN <<>>
  ELSE (IF IsMarkdownFile(Head(files)) THEN <<Head(files)>> ELSE <<>>)
         \o SelectMd(Tail(files))

\* the markdown files among the entries and in the folders among them,
\* depth levels down
RECURSIVE FilesUnder(_, _, _)
FilesUnder(ch, entries, depth) ==
  IF entries = <<>> \/ depth = 0 THEN <<>>
  ELSE LET e == Head(entries) IN
       (IF e \in Folders THEN FilesUnder(ch, ch[e], depth - 1)
        ELSE IF IsMarkdownFile(e) THEN <<e>> ELSE <<>>)
         \o FilesUnder(ch, Tail(entries), depth)

\* the markdownFiles of processFolder: the markdown files among the
\* children of the folder
markdownFiles(ch, folder) == SelectMd(ch[folder])

\* vault.getMarkdownFiles(): every markdown file of the vault
getMarkdownFiles(ch) == FilesUnder(ch, ch["/"], Cardinality(Folders))

(***************************************************************************)
(* The notes of the model: "hello ", up to MaxPieces image pieces          *)
(* separated by " ", and " world".                                         *)
(***************************************************************************)
Pieces ==
  << Wrap(<<"cat">>, <<"cat.png">>),
     Wrap(<<"dog">>, <<"cat.png">>),
     Wrap(<<"kit">>, <<"cat%2Epng">>),
     Wrap(<<>>, <<"https://example.com/a.png">>),
     Wrap(<<"w">>,
          <<"https://images.weserv.nl/?url=https://example.com/a.jpg">>),
     Wrap(<<>>, <<"https://example.com/page">>),
     Wrap(<<>>, <<"ipfs://", "bafyCat">>),
     Wrap(<<>>, <<"https://gateway.pinata.cloud/ipfs/bafyCat">>),
     Wrap(<<"gone">>, <<"cat_png">>),
     Wrap(<<"$&">>, <<"cat.png">>),
     <<"!", "[", "x", "]", "(">> \o Wrap(<<"cat">>, <<"cat.png">>),
     Wrap(<<"bad">>, <<"%E0%A4%A">>),
     Wrap(<<>>, <<"https://example.com/a.png?w=100">>) >>

RECURSIVE JoinPieces(_)
JoinPieces(ps) ==
  IF ps = <<>> THEN <<>>
  ELSE IF Len(ps) = 1 THEN Pieces[ps[1]]
  ELSE Pieces[ps[1]] \o <<" ">> \o JoinPieces(Tail(ps))

NoteOf(ps) == <<"hello ">> \o JoinPieces(ps) \o <<" world">>

Notes ==
  { NoteOf(ps) :
      ps \in UNION { [1..n -> 1..Len(Pieces)] : n \in 0..MaxPieces } }

\* the notes of a.md in the batch commands
BatchNotes == { NoteOf(<<1>>), NoteOf(<<7>>), NoteOf(<<1, 4>>) }

(***************************************************************************)
(* The pinning service and the helpers of the upload.                      *)
(***************************************************************************)
\* the CID the service computes for the bytes of an image, by its source
CidOf(src) ==
  CASE src = "cat.png" -> "bafyCat"
    [] src = "https://example.com/a.png" -> "bafyPng"
    [] src = "https://example.com/a.jpg" -> "bafyJpg"
    [] src = "blob2" -> "bafyNext"
    [] OTHER -> "bafyOther"

\* The answers of the service to one upload: signOk and signData are the
\* answer of the sign endpoint (private protocol only; signData "" is a
\* 2xx answer without the field "data"), upOk and cid the answer to the
\* request that carries the file (cid "" is a 2xx answer without the CID
\* field).
GoodResponse(src) ==
  [signOk |-> TRUE, signData |-> "presigned", upOk |-> TRUE,
   cid |-> CidOf(src)]

BadResponses ==
  { [signOk |-> FALSE, signData |-> "", upOk |-> FALSE, cid |-> ""],
    [signOk |-> TRUE, signData |-> "", upOk |-> FALSE, cid |-> ""],
    [signOk |-> TRUE, signData |-> "presigned", upOk |-> FALSE, cid |-> ""],
    [signOk |-> TRUE, signData |-> "presigned", upOk |-> TRUE, cid |-> ""] }

\* the endpoints of the pinning service
SignEndpoint == "https://uploads.pinata.cloud/v3/files/sign"
PinEndpoint == "https://api.pinata.cloud/pinning/pinFileToIPFS"

\* a fetch: the URL, the Authorization header ("" when none), whether the
\* body carries the file, and how it was answered: "ok", "http" (not 2xx),
\* "nodata" (2xx without "data") or "nocid" (2xx without the CID field)
Request(url, auth, body, answer) ==
  [url |-> url, auth |-> auth, file |-> body, answer |-> answer]

\* the answer to the request that carries the file
FileAnswer(r) ==
  IF ~r.upOk THEN "http" ELSE IF r.cid = "" THEN "nocid" ELSE "ok"

\* the URL fetch(signedUrl) requests: a missing "data" is undefined, which
\* fetch turns into the text "undefined"
FetchUrl(signedUrl) == IF signedUrl = "" THEN "undefined" ELSE signedUrl

\* throws: the result of an uploadToPinata that throws after the requests
Throws(requests, error) ==
  [cid |-> "", requests |-> requests, error |-> error]

\* an uploadToPinata that does not look at the credential
NotConfiguredIgnored(st) == FALSE

\* "if (!this.settings.pinataJwt)": no bearer credential
NotConfigured(st) == st.pinataJwt = ""

\* uploadToPinata: the CID it returns ("" when it throws), the requests it
\* has sent and the error it throws ("" when it returns)
uploadToPinata(st, r) ==
  IF NotConfigured(st) THEN Throws(<<>>, "Pinata JWT not configured")
  ELSE IF st.isPrivate
  THEN IF ~r.signOk
       THEN Throws(<<Request(SignEndpoint, st.pinataJwt, FALSE, "http")>>,
                   "Failed to get signed upload URL")
       ELSE LET sent ==
                  << Request(SignEndpoint, st.pinataJwt, FALSE,
                             IF r.signData = "" THEN "nodata" ELSE "ok"),
                     Request(FetchUrl(r.signData), "", TRUE, FileAnswer(r)) >>
            IN
            IF ~r.upOk THEN Throws(sent, "Upload failed")
            ELSE IF r.cid = ""
                 THEN Throws(sent, "Upload failed - no CID returned in response")
            ELSE [cid |-> r.cid, requests |-> sent, error |-> ""]
  ELSE LET sent == <<Request(PinEndpoint, st.pinataJwt, TRUE, FileAnswer(r))>>
       IN
       IF ~r.upOk THEN Throws(sent, "Upload failed")
       ELSE IF r.cid = ""
            THEN Throws(sent, "Upload failed - no IPFS hash returned")
       ELSE [cid |-> r.cid, requests |-> sent, error |-> ""]

\* the requests of an upload of invocation run as events of the log
RequestEvents(run, requests, f, i) ==
  [k \in 1..Len(requests) |->
     [run |-> run, op |-> "request", st |-> requests[k].answer, file |-> f,
      idx |-> i, arg |-> requests[k].url]]

\* the answer of the sign endpoint in the answers a of the service
SignOf(a) == [signOk |-> a.signOk, signData |-> a.signData]

\* The answers the first request of an upload under the settings st can
\* get.  The public protocol sends the file at once; the private protocol
\* asks the sign endpoint first, which answers with a URL, with a refusal
\* or with a 2xx answer without "data".
FirstAnswers(st, src, canFail) ==
  { a \in {GoodResponse(src)} \cup (IF canFail THEN BadResponses ELSE {}) :
      IF st.isPrivate
      THEN a = GoodResponse(src) \/ SignOf(a) # SignOf(GoodResponse(src))
      ELSE SignOf(a) = SignOf(GoodResponse(src)) }

\* The answers the request to the signed URL can get after the answer sign
\* of the sign endpoint: a request to the text "undefined" is not answered
\* by the service.
FileAnswers(sign, src, canFail) ==
  { a \in {GoodResponse(src)} \cup BadResponses :
      /\ SignOf(a) = sign
      /\ a = GoodResponse(src) \/ canFail \/ sign.signData = "" }

\* a handleImageUpload that returns the URL the file was sent to
UploadLiteralSigned(isPrivate, ipfsHash) ==
  <<"!", "[", "]", "(", "presigned", ")">>

\* the value handleImageUpload returns: "the complete markdown syntax"
UploadLiteral(isPrivate, ipfsHash) ==
  IF isPrivate
  THEN <<"!", "[", "private", "]", "(", "ipfs://", ipfsHash, ")">>
  ELSE <<"!", "[", "]", "(", "ipfs://", ipfsHash, ")">>

\* processedUrls, a Map kept as the sequence of its <<key, value>> entries
MapHas(m, k) == \E i \in 1..Len(m) : m[i][1] = k
MapGet(m, k) == m[CHOOSE i \in 1..Len(m) : m[i][1] = k][2]
\* a dedup map that forgets what is stored in it
MapSetForgets(m, k, v) == m

MapSet(m, k, v) ==
  IF MapHas(m, k)
  THEN [i \in 1..Len(m) |-> IF m[i][1] = k THEN <<k, v>> ELSE m[i]]
  ELSE Append(m, <<k, v>>)

\* What the loop body of processFile does with a match before its first
\* await, given the dedup map: "throw" (decodeURIComponent throws),
\* "dedup", "ipfs" (already on IPFS or Pinata), "remote" (download and
\* upload), "local" (upload a vault file) or "skip".
Classify(m, map) ==
  IF decodeURIComponentThrows(m.path) THEN "throw"
  ELSE LET decodedPath == decodeURIComponent(m.path) IN
       IF MapHas(map, decodedPath) THEN "dedup"
       ELSE IF IncludesIpfs(decodedPath) \/ IncludesPinata(decodedPath)
            THEN "ipfs"
       ELSE IF isRemoteUrl(decodedPath)
            THEN (IF isKnownCdnDomain(URL[decodedPath[1]].hostname)
                       \/ isImageUrl(decodedPath)
                  THEN "remote" ELSE "skip")
       ELSE IF getFirstLinkpathDest(decodedPath) # "" THEN "local"
       ELSE "skip"

(***************************************************************************)
(* Further bounds.                                                         *)
(***************************************************************************)
\* number of times the user invokes the command
MaxRuns == 2
\* number of failing operations (vault reads and writes, downloads, uploads,
\* backups) in one behaviour
MaxFaults == 2

(***************************************************************************)
(* State.                                                                  *)
(***************************************************************************)
\* The invocations of the command, in the order they start.  The callback
\* of a command is async and tests nothing, so an invocation can start
\* while another one waits at an await: every invocation has its own
\* locals, and all of them share the settings, the vault, the backup
\* folders and the Notices.
Runs == 1..MaxRuns

VARIABLES
  settings,       \* this.settings
  children,       \* folder.children of every folder of the vault
  vault,          \* the text of every note
  backups,        \* the paths that exist under the backup folders: the
                  \* folders made by createFolder and the copies of the images
  notices,        \* the Notices shown, <<message, file>>
  log,            \* per invocation (0: the user interface): the calls made
                  \* and completed, in order
  last,           \* the newest event of the log
  faults,         \* failing operations so far
  runs,           \* invocations of the command so far
  cmd,            \* the command the user invokes
  bound,          \* the invocations the user makes and the operations that
                  \* fail in this behaviour, at most
  inflight,       \* per invocation: the asynchronous calls started and not
                  \* yet completed
  bpc,            \* per invocation: position of the command, "idle" or "loop"
  queue,          \* per invocation: the files its loop has not reached yet
  pc,             \* per invocation: position of processFile
  file,           \* per invocation: the file of the running processFile
  content,        \* per invocation, processFile: content
  matches,        \* processFile: the matches of content.matchAll(imageRegex)
  idx,            \* processFile: index of the current match
  newContent,     \* processFile: newContent
  modified,       \* processFile: modified
  processedUrls,  \* processFile: processedUrls
  cur,            \* per invocation: the image being downloaded, uploaded or
                  \* backed up
  handlers,       \* the workspace events the plugin has registered a handler for
  shown,          \* the settings tab, as display() has rendered it last, has
                  \* the controls of the image optimization
  editor,         \* the text of the note open in the editor
  dom,            \* the rendered img elements, in document order
  pending,        \* the calls of the event handlers and timers not yet completed
  call,           \* the last constructIpfsUrl that completed
  acts,           \* user interface events so far
  ticks,          \* firings of the refresh interval so far
  clipboard       \* the images a paste or a drop event carries

uiVars == <<handlers, shown, editor, dom, pending, call, acts, ticks, clipboard>>

vars ==
  <<settings, children, vault, backups, notices, log, last, inflight, faults,
    runs, cmd, bound, bpc, queue, pc, file, content, matches, idx, newContent, modified,
    processedUrls, cur, uiVars>>

passVars == <<content, matches, idx, newContent, modified, processedUrls>>

\* what uploadToPinata reads of the settings
UploadSettings(st) == [pinataJwt |-> st.pinataJwt, isPrivate |-> st.isPrivate]

\* no image in flight.  st is what uploadToPinata has read of the settings
\* when it sent its first request, sign the answer of the sign endpoint,
\* folder the folderPath of the running backupImage and step its await.
NoCur ==
  [local |-> FALSE, src |-> "", cid |-> "",
   st |-> [pinataJwt |-> "", isPrivate |-> FALSE],
   sign |-> [signOk |-> FALSE, signData |-> ""],
   folder |-> <<>>, step |-> ""]

\* no event yet
NoEv == [run |-> 0, op |-> "", st |-> "", file |-> "", idx |-> 0, arg |-> ""]

\* an event of the log: the invocation r it belongs to (0 for an event of
\* the user interface), the call, its outcome, the file, the index of the
\* match and an argument
Ev(r, op, st, f, i, a) ==
  [run |-> r, op |-> op, st |-> st, file |-> f, idx |-> i, arg |-> a]

\* the events evs, made by invocation r, are added to the log
Log(r, evs) ==
  /\ log' = [log EXCEPT ![r] = @ \o evs]
  /\ last' = evs[Len(evs)]

\* The commands: processFile on the active note, called by the command
\* "Process Current File" of the palette and by the first button of the
\* commands modal; processFolder on the folder of the active file and
\* processAllFiles, called by the other two buttons of the modal.  The
\* target "" of the first two is a workspace without an active file
\* (getActiveFile() returns null).
Commands ==
  { [kind |-> "file", target |-> t, via |-> v] :
      t \in {"a.md", ""}, v \in {"palette", "modal"} }
    \cup { [kind |-> "all", target |-> "", via |-> "modal"] }
    \cup { [kind |-> "folder", target |-> f, via |-> "modal"] :
             f \in Folders \cup {""} }

\* DEFAULT_SETTINGS.  A text setting is a sequence of atoms.
DEFAULT_SETTINGS ==
  [pinataJwt |-> "",
   pinataGateway |-> <<"gateway.pinata.cloud">>,
   isPrivate |-> FALSE,
   imageOptimization |->
     [enabled |-> FALSE, width |-> 800, height |-> 600, quality |-> 80,
      format |-> "auto", fit |-> "cover"],
   autoUploadPaste |-> TRUE,
   autoUploadDrag |-> TRUE,
   backupOriginalImages |-> TRUE,
   backupFolder |-> <<".image_backup">>]

\* The settings the batch commands read.  With an empty credential every
\* upload throws before isPrivate or backupOriginalImages is read, so one
\* value of each is enough there.
BatchSettings ==
  { [DEFAULT_SETTINGS EXCEPT !.pinataJwt = "jwt", !.isPrivate = p,
                             !.backupOriginalImages = b] :
      p \in BOOLEAN, b \in BOOLEAN }
    \cup {DEFAULT_SETTINGS}

\* registerHandlers, called once by onload: the events that get a handler
registerHandlers(st) ==
  (IF st.autoUploadPaste THEN {"editor-paste"} ELSE {})
    \cup (IF st.autoUploadDrag THEN {"editor-drop"} ELSE {})

\* no constructIpfsUrl has completed yet
NoCall ==
  [done |-> FALSE, hash |-> <<>>, st |-> DEFAULT_SETTINGS, requests |-> <<>>,
   url |-> <<>>, error |-> ""]

\* no invocation has started: the locals of every invocation
NoRuns ==
  /\ inflight = [r \in Runs |-> {}]
  /\ bpc = [r \in Runs |-> "idle"]
  /\ queue = [r \in Runs |-> <<>>]
  /\ pc = [r \in Runs |-> "none"]
  /\ file = [r \in Runs |-> ""]
  /\ content = [r \in Runs |-> <<>>]
  /\ matches = [r \in Runs |-> <<>>]
  /\ idx = [r \in Runs |-> 0]
  /\ newContent = [r \in Runs |-> <<>>]
  /\ modified = [r \in Runs |-> FALSE]
  /\ processedUrls = [r \in Runs |-> <<>>]
  /\ cur = [r \in Runs |-> NoCur]

\* the user interface before any event
NoUI ==
  /\ shown = settings.imageOptimization.enabled
  /\ clipboard = 1
  /\ editor = <<>>
  /\ dom = <<>>
  /\ pending = {}
  /\ call = NoCall
  /\ acts = 0
  /\ ticks = 0

\* The bounds of a behaviour: one invocation with up to MaxFaults failing
\* operations, or MaxRuns invocations, which may overlap.  Overlapping
\* invocations are explored with one failing operation, and those of a
\* command over several notes (the whole vault, a folder with more than
\* one note) without failing operations and without backups.
Bounds(c, st) ==
  {[runs |-> 1, faults |-> MaxFaults]}
    \cup (IF c.kind = "all"
             \/ (c.kind = "folder" /\ c.target # ""
                   /\ Len(markdownFiles(TreeChildren, c.target)) > 1)
          THEN IF ~st.backupOriginalImages
               THEN {[runs |-> MaxRuns, faults |-> 0]}
               ELSE {}
          ELSE {[runs |-> MaxRuns, faults |-> 1]})

Init ==
  /\ settings \in BatchSettings
  /\ cmd \in Commands
  /\ bound \in Bounds(cmd, settings)
  /\ \/ /\ children = TreeChildren
        /\ \E n \in (IF cmd.kind # "file" THEN BatchNotes
                     ELSE IF bound.runs = 1 THEN Notes
                     ELSE BatchNotes \cup { NoteOf(<<10>>) }) :
             vault = [f \in MdFiles |->
                        CASE f = "a.md" -> n
                          [] f = "sub/b.md" -> NoteOf(<<2>>)
                          [] f = "sub/c.md" -> NoteOf(<<4>>)]
     \/ /\ children = EmptyChildren
        /\ cmd.kind # "file"
        /\ bound.runs = 1
        /\ vault = [f \in MdFiles |-> NoteOf(<<>>)]
  /\ backups = {}
  /\ notices = <<>>
  /\ log = [r \in 0..MaxRuns |-> <<>>]
  /\ last = NoEv
  /\ faults = 0
  /\ runs = 0
  /\ NoRuns
  /\ handlers = registerHandlers(settings)
  /\ NoUI

CanFail == faults < bound.faults

(***************************************************************************)
(* The commands.                                                           *)
(***************************************************************************)
\* the event of the log when the command method of invocation r has
\* returned to its caller without an error
CommandReturned(r) == Ev(r, "command", "return", cmd.target, 0, cmd.kind)

\* The handler of a button of the commands modal shows a Notice before it
\* calls the command method ("start") and one after the await of the
\* method, in its try when the method has returned and in its catch when
\* the method has thrown; without an active file ("else") it calls nothing
\* and shows a Notice.  The callback of the palette shows none.  nt are
\* the Notices up to here.
onClick(nt, phase) ==
  IF cmd.via # "modal" THEN nt
  ELSE Append(nt,
              CASE cmd.kind = "file" ->
                     (CASE phase = "start" ->
                             <<"Processing current file...", "">>
                        [] phase = "returned" ->
                             <<"Successfully processed current file", "">>
                        [] phase = "threw" ->
                             <<"Failed to process file:", "">>
                        [] phase = "else" ->
                             <<"No active file selected", "">>)
                [] cmd.kind = "folder" ->
                     (CASE phase = "start" ->
                             <<"Processing folder", cmd.target>>
                        [] phase = "returned" ->
                             <<"Successfully processed folder", cmd.target>>
                        [] phase = "threw" ->
                             <<"Failed to process folder:", "">>
                        [] phase = "else" ->
                             <<"Could not determine the active folder", "">>)
                [] cmd.kind = "all" ->
                     (CASE phase = "start" ->
                             <<"Processing all files...", "">>
                        [] phase = "returned" ->
                             <<"Successfully processed all files", "">>
                        [] phase = "threw" ->
                             <<"Failed to process all files:", "">>))

\* The handler of the command of invocation r goes on after its await of
\* the command method, which has returned or has thrown (outcome): the
\* continuation runs as soon as the promise of the method is settled,
\* before any other answer is handled.  nt are the Notices and lg the
\* events of the step up to here.
Resume(r, outcome, nt, lg) ==
  /\ bpc' = [bpc EXCEPT ![r] = "idle"]
  /\ notices' = onClick(nt, outcome)
  /\ Log(r, Append(lg, IF outcome = "returned" THEN CommandReturned(r)
                       ELSE Ev(r, "command", "throw", cmd.target, 0,
                               cmd.kind)))

\* "await this.processFile(file)" of invocation r up to the first await
\* of processFile, vault.read
CallProcessFile(r, f, lg) ==
  /\ file' = [file EXCEPT ![r] = f]
  /\ pc' = [pc EXCEPT ![r] = "read"]
  /\ inflight' = [inflight EXCEPT ![r] = @ \cup {<<"read", f, 0>>}]
  /\ Log(r, Append(lg, Ev(r, "processFile", "call", f, 0, "")))

\* the command "Process Current File" and the button "Process current
\* file": the callback calls processFile on the active file and returns to
\* the event loop at its first await.  The event of the start records the
\* number of invocations that have started and not returned.
ProcessCurrentFile ==
  /\ runs < bound.runs /\ cmd.kind = "file"
  /\ runs' = runs + 1
  /\ IF cmd.target = ""
     THEN /\ notices' = onClick(notices, "else")
          /\ Log(runs + 1,
                 <<Ev(runs + 1, "command", "no file", "", 0, cmd.kind)>>)
          /\ UNCHANGED <<bpc, queue, pc, file, inflight>>
     ELSE /\ bpc' = [bpc EXCEPT ![runs + 1] = "loop"]
          /\ queue' = [queue EXCEPT ![runs + 1] = <<>>]
          /\ notices' = onClick(notices, "start")
          /\ CallProcessFile(runs + 1, cmd.target,
                             <<Ev(runs + 1, "command", "start", cmd.target,
                                  Cardinality({ r \in Runs :
                                                  bpc[r] # "idle" }),
                                  cmd.kind)>>)
  /\ UNCHANGED <<uiVars, settings, children, vault, backups, faults,
                 cmd, bound, passVars, cur>>

\* A button of the modal calls a command method, which enumerates the
\* files fs: without files the method shows the Notice none and returns,
\* else it shows the Notice some and calls processFile on the first file.
\* When the enumeration throws, the catch of the method shows the Notice
\* failed, and the method returns.
StartLoop(fs, none, some, failed) ==
  /\ runs < bound.runs
  /\ runs' = runs + 1
  /\ LET r == runs + 1
         lg == <<Ev(r, "command", "start", cmd.target,
                    Cardinality({ q \in Runs : bpc[q] # "idle" }),
                    cmd.kind)>>
         nt == onClick(notices, "start")
     IN
     \/ /\ IF fs = <<>>
           THEN /\ Resume(r, "returned", Append(nt, none), lg)
                /\ UNCHANGED <<queue, pc, file, inflight>>
           ELSE /\ notices' = Append(nt, some)
                /\ bpc' = [bpc EXCEPT ![r] = "loop"]
                /\ queue' = [queue EXCEPT ![r] = Tail(fs)]
                /\ CallProcessFile(r, Head(fs), lg)
        /\ UNCHANGED faults
     \/ /\ CanFail
        /\ faults' = faults + 1
        /\ Resume(r, "returned", Append(nt, failed),
                  Append(lg, Ev(r, "enumerate", "fail", cmd.target, 0,
                                cmd.kind)))
        /\ UNCHANGED <<queue, pc, file, inflight>>
  /\ UNCHANGED <<uiVars, settings, children, vault, backups, cmd, bound,
                 passVars, cur>>

\* the button "Process current folder": without an active file it shows a
\* Notice, else it calls processFolder on the folder of the active file,
\* which runs up to the first await of its loop
processFolder ==
  /\ cmd.kind = "folder"
  /\ IF cmd.target = ""
     THEN /\ runs < bound.runs
          /\ runs' = runs + 1
          /\ notices' = onClick(notices, "else")
          /\ Log(runs + 1,
                 <<Ev(runs + 1, "command", "no file", "", 0, cmd.kind)>>)
          /\ UNCHANGED <<uiVars, settings, children, vault, backups, faults,
                         cmd, bound, bpc, queue, pc, file, inflight, passVars,
                         cur>>
     ELSE StartLoop(markdownFiles(children, cmd.target),
                    <<"No markdown files found in", cmd.target>>,
                    <<"Processing files in", cmd.target>>,
                    <<"Failed to process folder", cmd.target>>)

\* the button "Process all files" calls processAllFiles, which runs up to
\* the first await of its loop
processAllFiles ==
  /\ cmd.kind = "all"
  /\ StartLoop(getMarkdownFiles(children),
               <<"No markdown files found in the vault", "">>,
               <<"Processing files", "">>,
               <<"Failed to process all files", "">>)

\* a loop that does not await the vault.modify of processFile
PassReturnedEarly(r) == pc[r] \in {"none", "modify"}

\* "await this.processFile(file)": the loop of invocation r goes on when
\* the call has returned
PassReturned(r) == pc[r] = "none"

\* the loop of the command calls processFile on the next file
LoopCall(r) ==
  /\ bpc[r] = "loop" /\ PassReturned(r) /\ queue[r] # <<>>
  /\ queue' = [queue EXCEPT ![r] = Tail(@)]
  /\ CallProcessFile(r, Head(queue[r]), <<>>)
  /\ UNCHANGED <<uiVars,
                 settings, children, vault, backups, notices, faults, runs,
                 cmd, bound, bpc, passVars, cur>>

\* the loop of the command of invocation r is over, or the processFile
\* the handler has called itself has returned: the method shows its last
\* Notice and returns, and the handler goes on
LoopEnd(r) ==
  /\ bpc[r] = "loop" /\ PassReturned(r) /\ queue[r] = <<>>
  /\ Resume(r, "returned",
            CASE cmd.kind = "folder" ->
                   Append(notices,
                          <<"Finished processing folder", cmd.target>>)
              [] cmd.kind = "all" ->
                   Append(notices, <<"Finished processing all files", "">>)
              [] OTHER -> notices,
            <<>>)
  /\ UNCHANGED <<uiVars,
                 settings, children, vault, backups, inflight, faults,
                 runs, cmd, bound, queue, pc, file, passVars, cur>>

(***************************************************************************)
(* processFile.                                                            *)
(***************************************************************************)
\* a processFile without its catch
processFileRethrows == FALSE

\* The catch of processFile swallows the error of vault.read and of
\* vault.modify, so the call returns normally to the loop of the command.
processFileCatches == TRUE

\* a catch that makes the loop try the failed image again
AfterFailedImageRetries(i, n) == i

\* the index the for-of loop goes on with after the catch of a failed image
AfterFailedImage(i, n) == i + 1

\* How processFile ends after a failed vault.read or vault.modify, lg
\* being the events of the step: its catch shows a Notice and it returns.
\* Without the catch the error reaches the caller: the catch of
\* processFolder or of processAllFiles, which shows a Notice and returns,
\* or the handler of the command.
FailPass(r, nt, lg) ==
  IF processFileCatches
  THEN /\ notices' = Append(nt, <<"Failed to process", file[r]>>)
       /\ Log(r, lg)
       /\ UNCHANGED <<bpc, queue>>
  ELSE /\ queue' = [queue EXCEPT ![r] = <<>>]
       /\ CASE cmd.kind = "file" -> Resume(r, "threw", nt, lg)
            [] cmd.kind = "folder" ->
                 Resume(r, "returned",
                        Append(nt, <<"Failed to process folder", cmd.target>>),
                        lg)
            [] cmd.kind = "all" ->
                 Resume(r, "returned",
                        Append(nt, <<"Failed to process all files", "">>), lg)

\* await this.app.vault.read(file) completes, and the loop is set up
processFile_read(r) ==
  /\ pc[r] = "read"
  /\ inflight' = [inflight EXCEPT ![r] = @ \ {<<"read", file[r], 0>>}]
  /\ \/ /\ content' = [content EXCEPT ![r] = vault[file[r]]]
        /\ matches' = [matches EXCEPT ![r] = matchAll(vault[file[r]])]
        /\ newContent' = [newContent EXCEPT ![r] = vault[file[r]]]
        /\ modified' = [modified EXCEPT ![r] = FALSE]
        /\ processedUrls' = [processedUrls EXCEPT ![r] = <<>>]
        /\ idx' = [idx EXCEPT ![r] = 1]
        /\ pc' = [pc EXCEPT ![r] = "loop"]
        /\ Log(r, <<Ev(r, "read", "ok", file[r], 0, "")>>)
        /\ UNCHANGED <<notices, faults, bpc, queue>>
     \/ /\ CanFail
        /\ faults' = faults + 1
        /\ pc' = [pc EXCEPT ![r] = "none"]
        /\ FailPass(r, notices, <<Ev(r, "read", "fail", file[r], 0, "")>>)
        /\ UNCHANGED passVars
  /\ UNCHANGED <<uiVars,
                 settings, children, vault, backups, runs, cmd, bound, file, cur>>

\* one iteration of the for-of loop up to its first await
processFile_match(r) ==
  /\ pc[r] = "loop" /\ idx[r] <= Len(matches[r])
  /\ LET m == matches[r][idx[r]]
         fullMatch == FullMatch(content[r], m)
         kind == Classify(m, processedUrls[r])
         decodedPath == decodeURIComponent(m.path)
     IN
     /\ CASE kind = "throw" ->
               /\ notices' = Append(notices,
                                    <<"Failed to process image in", file[r]>>)
               /\ idx' = [idx EXCEPT ![r] =
                            AfterFailedImage(idx[r], Len(matches[r]))]
               /\ UNCHANGED <<pc, cur, inflight, newContent, modified>>
          [] kind = "dedup" ->
               /\ newContent' =
                    [newContent EXCEPT ![r] =
                       ReplaceFirst(@, fullMatch,
                                    Wrap(m.alt,
                                         MapGet(processedUrls[r], decodedPath)))]
               /\ modified' = [modified EXCEPT ![r] = TRUE]
               /\ idx' = [idx EXCEPT ![r] = @ + 1]
               /\ UNCHANGED <<pc, cur, inflight, notices>>
          [] kind \in {"ipfs", "skip"} ->
               /\ idx' = [idx EXCEPT ![r] = @ + 1]
               /\ UNCHANGED <<pc, cur, inflight, notices, newContent, modified>>
          [] kind = "remote" ->
               /\ pc' = [pc EXCEPT ![r] = "download"]
               /\ cur' = [cur EXCEPT ![r] =
                            [NoCur EXCEPT
                               !.src = extractOriginalUrl(decodedPath)]]
               /\ inflight' = [inflight EXCEPT ![r] =
                                 @ \cup {<<"download", file[r], idx[r]>>}]
               /\ UNCHANGED <<idx, notices, newContent, modified>>
          [] kind = "local" ->
               /\ pc' = [pc EXCEPT ![r] = "upload"]
               /\ cur' = [cur EXCEPT ![r] =
                            [NoCur EXCEPT
                               !.local = TRUE,
                               !.src = getFirstLinkpathDest(decodedPath)]]
               /\ inflight' = [inflight EXCEPT ![r] =
                                 @ \cup {<<"upload", file[r], idx[r]>>}]
               /\ UNCHANGED <<idx, notices, newContent, modified>>
     /\ Log(r, <<Ev(r, "match", kind, file[r], idx[r],
                              IF kind = "remote"
                              THEN extractOriginalUrl(decodedPath) ELSE "")>>)
  /\ UNCHANGED <<uiVars,
                 settings, children, vault, backups, faults, runs, cmd, bound, bpc,
                 queue, file, content, matches, processedUrls>>

\* await this.downloadRemoteImage(originalUrl) completes; on success
\* handleImageUpload(imageBlob) starts
downloadRemoteImage(r) ==
  /\ pc[r] = "download"
  /\ \/ /\ pc' = [pc EXCEPT ![r] = "upload"]
        /\ inflight' = [inflight EXCEPT ![r] =
                          (@ \ {<<"download", file[r], idx[r]>>})
                            \cup {<<"upload", file[r], idx[r]>>}]
        /\ Log(r, <<Ev(r, "download", "ok", file[r], idx[r],
                                 cur[r].src)>>)
        /\ UNCHANGED <<notices, faults, idx, cur>>
     \/ /\ CanFail
        /\ faults' = faults + 1
        /\ pc' = [pc EXCEPT ![r] = "loop"]
        /\ idx' = [idx EXCEPT ![r] = AfterFailedImage(idx[r], Len(matches[r]))]
        /\ cur' = [cur EXCEPT ![r] = NoCur]
        /\ inflight' = [inflight EXCEPT ![r] =
                          @ \ {<<"download", file[r], idx[r]>>}]
        /\ Log(r, <<Ev(r, "download", "fail", file[r], idx[r],
                                 cur[r].src)>>)
        /\ notices' = Append(notices,
                             <<"Failed to process remote image", file[r]>>)
  /\ UNCHANGED <<uiVars,
                 settings, children, vault, backups, runs, cmd, bound, bpc, queue,
                 file, content, matches, newContent, modified, processedUrls>>

\* folderPath of backupImage: `${backupFolder}/${file.parent?.path || ""}`
\* with the runs of "/" made one, for an image in the root of the vault;
\* backupFolder is this.settings.backupFolder.trim() || ".image_backup"
folderPath(st) ==
  (IF Trim(st.backupFolder) = <<>> THEN <<".image_backup">>
   ELSE Trim(st.backupFolder)) \o <<"/">>

\* handleImageUpload has returned the literal for ipfsHash: processFile
\* records it, replaces every instance of the image and, for a vault file
\* with backups on, calls backupImage, which reads the backup folder of the
\* settings and awaits adapter.exists.  An expression that new RegExp
\* refuses goes to the catch of the image.  nt are the Notices up to here.
UploadReturned(r, ipfsHash, lg, infl, nt) ==
  LET m == matches[r][idx[r]]
      url == UploadLiteral(settings.isPrivate, ipfsHash)
  IN
  /\ processedUrls' = [processedUrls EXCEPT ![r] =
                         MapSet(@, decodeURIComponent(m.path), url)]
  /\ IF RegExpThrows(escapeRegExp(m.path))
     THEN /\ notices' =
               Append(nt, <<IF cur[r].local
                            THEN "Failed to process local image"
                            ELSE "Failed to process remote image", file[r]>>)
          /\ Log(r, Append(lg, Ev(r, "regexp", "fail", file[r], idx[r],
                                  ipfsHash)))
          /\ pc' = [pc EXCEPT ![r] = "loop"]
          /\ idx' = [idx EXCEPT ![r] =
                       AfterFailedImage(idx[r], Len(matches[r]))]
          /\ cur' = [cur EXCEPT ![r] = NoCur]
          /\ inflight' = [inflight EXCEPT ![r] = infl]
          /\ UNCHANGED <<newContent, modified>>
     ELSE /\ notices' = nt
          /\ newContent' = [newContent EXCEPT ![r] =
                              ReplaceAll(@, m.path, Wrap(m.alt, url))]
          /\ modified' = [modified EXCEPT ![r] = TRUE]
          /\ Log(r, Append(lg, Ev(r, "replace", "done", file[r], idx[r],
                                  ipfsHash)))
          /\ IF settings.backupOriginalImages /\ cur[r].local
             THEN /\ pc' = [pc EXCEPT ![r] = "backup2"]
                  /\ idx' = idx
                  /\ cur' = [cur EXCEPT ![r].cid = ipfsHash,
                                        ![r].folder = folderPath(settings),
                                        ![r].step = "exists"]
                  /\ inflight' = [inflight EXCEPT ![r] =
                                    infl \cup {<<"backup", file[r], idx[r]>>}]
             ELSE /\ pc' = [pc EXCEPT ![r] = "loop"]
                  /\ idx' = [idx EXCEPT ![r] = @ + 1]
                  /\ cur' = [cur EXCEPT ![r] = NoCur]
                  /\ inflight' = [inflight EXCEPT ![r] = infl]
  /\ UNCHANGED <<content, matches>>

\* handleImageUpload of invocation r has thrown (res.cid is "") or
\* uploadToPinata has returned res, with lg the log up to here: the catch
\* of the loop of processFile shows a Notice and goes on, or
\* handleImageUpload goes on: for a vault file with backups on
\* ("this.settings.backupOriginalImages && file instanceof TFile") to
\* backupImage, else to the literal
UploadDone(r, res, lg) ==
  LET infl == inflight[r] \ {<<"upload", file[r], idx[r]>>} IN
  IF res.cid = ""
  THEN /\ pc' = [pc EXCEPT ![r] = "loop"]
       /\ idx' = [idx EXCEPT ![r] = AfterFailedImage(idx[r], Len(matches[r]))]
       /\ cur' = [cur EXCEPT ![r] = NoCur]
       /\ inflight' = [inflight EXCEPT ![r] = infl]
       /\ Log(r, Append(lg, Ev(r, "upload", "fail", file[r], idx[r],
                               cur[r].src)))
       /\ notices' =
            Append(notices,
                   <<IF cur[r].local
                     THEN "Failed to process local image"
                     ELSE "Failed to process remote image", file[r]>>)
       /\ UNCHANGED <<content, matches, newContent, modified, processedUrls>>
  ELSE IF settings.backupOriginalImages /\ cur[r].local
  THEN /\ pc' = [pc EXCEPT ![r] = "backup1"]
       /\ cur' = [cur EXCEPT ![r].cid = res.cid,
                             ![r].folder = folderPath(settings),
                             ![r].step = "exists"]
       /\ inflight' = [inflight EXCEPT ![r] =
                         infl \cup {<<"backup", file[r], idx[r]>>}]
       /\ Log(r, Append(lg, Ev(r, "upload", "ok", file[r], idx[r], cur[r].src)))
       /\ UNCHANGED <<notices, passVars>>
  ELSE UploadReturned(r, res.cid,
                      Append(lg, Ev(r, "upload", "ok", file[r], idx[r],
                                    cur[r].src)),
                      infl, notices)

\* handleImageUpload: "await this.app.vault.readBinary(file)" or "await
\* file.arrayBuffer()" completes, and uploadToPinata reads the credential
\* and isPrivate and sends its first request, or throws; or the readBinary
\* of the vault file or the arrayBuffer of the blob rejects, and
\* handleImageUpload rethrows
handleImageUpload(r) ==
  /\ pc[r] = "upload"
  /\ \/ /\ IF NotConfigured(settings)
           THEN UploadDone(r, uploadToPinata(settings,
                                             GoodResponse(cur[r].src)),
                           <<>>)
           ELSE /\ pc' = [pc EXCEPT ![r] = "request"]
                /\ cur' = [cur EXCEPT ![r].st = UploadSettings(settings)]
                /\ UNCHANGED <<log, last, notices, inflight, passVars>>
        /\ UNCHANGED faults
     \/ /\ CanFail
        /\ faults' = faults + 1
        /\ UploadDone(r, Throws(<<>>, IF cur[r].local THEN "readBinary failed"
                                      ELSE "arrayBuffer failed"),
                      <<>>)
  /\ UNCHANGED <<uiVars, settings, children, vault, backups, runs,
                 cmd, bound, bpc, queue, file>>

\* uploadToPinata_request: the first request of uploadToPinata is answered.
\* The public upload and a refused sign request end the call; after any
\* other answer of the sign endpoint the file is sent to the URL of the
\* answer.
uploadToPinata_request(r) ==
  /\ pc[r] = "request"
  /\ \E a \in FirstAnswers(cur[r].st, cur[r].src, CanFail) :
       LET res == uploadToPinata(cur[r].st, a) IN
       /\ faults' = IF (IF cur[r].st.isPrivate
                         THEN SignOf(a) # SignOf(GoodResponse(""))
                         ELSE a \in BadResponses)
                     THEN faults + 1 ELSE faults
       /\ IF Len(res.requests) <= 1
          THEN UploadDone(r, res,
                          RequestEvents(r, res.requests, file[r], idx[r]))
          ELSE /\ pc' = [pc EXCEPT ![r] = "file"]
               /\ cur' = [cur EXCEPT ![r].sign = SignOf(a)]
               /\ Log(r, RequestEvents(r, SubSeq(res.requests, 1, 1),
                                     file[r], idx[r]))
               /\ UNCHANGED <<notices, inflight, passVars>>
  /\ UNCHANGED <<uiVars, settings, children, vault, backups, runs, cmd, bound, bpc,
                 queue, file>>

\* uploadToPinata_file: "await fetch(signedUrl, ...)", the request of the
\* private protocol that carries the file, is answered
uploadToPinata_file(r) ==
  /\ pc[r] = "file"
  /\ \E a \in FileAnswers(cur[r].sign, cur[r].src, CanFail) :
       LET res == uploadToPinata(cur[r].st, a) IN
       /\ faults' = IF a \in BadResponses /\ a.signData # ""
                     THEN faults + 1 ELSE faults
       /\ UploadDone(r, res,
                     RequestEvents(r, SubSeq(res.requests, 2,
                                             Len(res.requests)),
                                   file[r], idx[r]))
  /\ UNCHANGED <<uiVars, settings, children, vault, backups, runs, cmd, bound, bpc,
                 queue, file>>

\* a createBinary that returns without writing the copy
createBinaryLost(bk, backupPath) == bk

\* the backup folders after createBinary has written the copy
createBinary(bk, backupPath) == bk \cup {backupPath}

\* vault.createBinary throws "File already exists." when the path of the
\* copy is taken: the copy of an image is written once
createBinaryThrows(bk, backupPath) == backupPath \in bk

\* a backupImage without its catch
backupImageRethrows == FALSE

\* The catch of backupImage swallows the error of the copy, so the call
\* returns normally to its caller.
backupImageCatches == TRUE

\* "await this.backupImage(file)" completes for invocation r: the copy is
\* written (ok), or the catch of backupImage has shown a Notice.  The first
\* call of an image returns to handleImageUpload, which returns the
\* literal; the second returns to the loop of processFile.
BackupReturned(r, ok) ==
  LET lg == <<Ev(r, "backup", IF ok THEN "ok" ELSE "fail",
                 file[r], idx[r], cur[r].src)>>
      infl == inflight[r] \ {<<"backup", file[r], idx[r]>>}
      nt == IF ok THEN notices
            ELSE Append(notices, <<"Failed to backup image", file[r]>>)
  IN
  IF (ok \/ backupImageCatches) /\ pc[r] = "backup1"
  THEN UploadReturned(r, cur[r].cid, lg, infl, nt)
  ELSE /\ notices' =
            IF ok \/ backupImageCatches THEN nt
            ELSE Append(notices, <<"Failed to process local image", file[r]>>)
       /\ pc' = [pc EXCEPT ![r] = "loop"]
       /\ idx' = [idx EXCEPT ![r] =
                    IF ok \/ backupImageCatches THEN @ + 1
                    ELSE AfterFailedImage(idx[r], Len(matches[r]))]
       /\ cur' = [cur EXCEPT ![r] = NoCur]
       /\ inflight' = [inflight EXCEPT ![r] = infl]
       /\ Log(r, lg)
       /\ UNCHANGED <<content, matches, newContent, modified, processedUrls>>

\* backupImage: "await this.app.vault.adapter.exists(folderPath)" completes
backupImage_exists(r) ==
  /\ pc[r] \in {"backup1", "backup2"} /\ cur[r].step = "exists"
  /\ \/ /\ cur' = [cur EXCEPT ![r].step =
                     IF cur[r].folder \in backups THEN "readBinary"
                     ELSE "createFolder"]
        /\ UNCHANGED <<faults, notices, log, last, inflight, pc, passVars>>
     \/ /\ CanFail
        /\ faults' = faults + 1
        /\ BackupReturned(r, FALSE)
  /\ UNCHANGED <<uiVars, settings, children, vault, backups, runs, cmd,
                 bound, bpc, queue, file>>

\* backupImage: "await this.app.vault.createFolder(folderPath)" completes;
\* it throws "Folder already exists." when the folder has been made since
\* adapter.exists has answered
backupImage_createFolder(r) ==
  /\ pc[r] \in {"backup1", "backup2"} /\ cur[r].step = "createFolder"
  /\ IF cur[r].folder \in backups
     THEN /\ BackupReturned(r, FALSE)
          /\ UNCHANGED <<faults, backups>>
     ELSE \/ /\ backups' = backups \cup {cur[r].folder}
             /\ cur' = [cur EXCEPT ![r].step = "readBinary"]
             /\ UNCHANGED <<faults, notices, log, last, inflight, pc,
                            passVars>>
          \/ /\ CanFail
             /\ faults' = faults + 1
             /\ BackupReturned(r, FALSE)
             /\ UNCHANGED backups
  /\ UNCHANGED <<uiVars, settings, children, vault, runs, cmd, bound, bpc,
                 queue, file>>

\* backupImage: "await this.app.vault.readBinary(file)" completes
backupImage_readBinary(r) ==
  /\ pc[r] \in {"backup1", "backup2"} /\ cur[r].step = "readBinary"
  /\ \/ /\ cur' = [cur EXCEPT ![r].step = "createBinary"]
        /\ UNCHANGED <<faults, notices, log, last, inflight, pc, passVars>>
     \/ /\ CanFail
        /\ faults' = faults + 1
        /\ BackupReturned(r, FALSE)
  /\ UNCHANGED <<uiVars, settings, children, vault, backups, runs, cmd,
                 bound, bpc, queue, file>>

\* backupImage: "await this.app.vault.createBinary(backupPath, content)"
\* completes, backupPath being `${folderPath}/${file.name}`
backupImage_createBinary(r) ==
  /\ pc[r] \in {"backup1", "backup2"} /\ cur[r].step = "createBinary"
  /\ LET backupPath == cur[r].folder \o <<"/", cur[r].src>> IN
     IF createBinaryThrows(backups, backupPath)
     THEN /\ BackupReturned(r, FALSE)
          /\ UNCHANGED <<faults, backups>>
     ELSE \/ /\ backups' = createBinary(backups, backupPath)
             /\ BackupReturned(r, TRUE)
             /\ UNCHANGED faults
          \/ /\ CanFail
             /\ faults' = faults + 1
             /\ BackupReturned(r, FALSE)
             /\ UNCHANGED backups
  /\ UNCHANGED <<uiVars, settings, children, vault, runs, cmd, bound, bpc,
                 queue, file>>

\* a processFile that writes the note whatever modified is
IfModifiedAlways(m) == TRUE

\* "if (modified)" after the loop
IfModified(m) == m

\* the for-of loop is over: "if (modified)" starts vault.modify, else
\* processFile returns
processFile_endLoop(r) ==
  /\ pc[r] = "loop" /\ idx[r] > Len(matches[r])
  /\ IF IfModified(modified[r])
     THEN /\ pc' = [pc EXCEPT ![r] = "modify"]
          /\ inflight' = [inflight EXCEPT ![r] =
                            @ \cup {<<"modify", file[r], 0>>}]
          /\ Log(r, <<Ev(r, "modify", "start", file[r], 0, "")>>)
     ELSE /\ pc' = [pc EXCEPT ![r] = "none"]
          /\ Log(r, <<Ev(r, "processFile", "return", file[r], 0, "")>>)
          /\ UNCHANGED inflight
  /\ UNCHANGED <<uiVars,
                 settings, children, vault, backups, notices, faults, runs,
                 cmd, bound, bpc, queue, file, passVars, cur>>

\* await this.app.vault.modify(file, newContent) completes
processFile_modify(r) ==
  /\ pc[r] = "modify"
  /\ pc' = [pc EXCEPT ![r] = "none"]
  /\ inflight' = [inflight EXCEPT ![r] = @ \ {<<"modify", file[r], 0>>}]
  /\ \/ /\ vault' = [vault EXCEPT ![file[r]] = newContent[r]]
        /\ notices' = Append(notices, <<"Updated images in", file[r]>>)
        /\ Log(r, <<Ev(r, "modify", "ok", file[r], 0, "")>>)
        /\ UNCHANGED <<faults, bpc, queue>>
     \/ /\ CanFail
        /\ faults' = faults + 1
        /\ FailPass(r, notices, <<Ev(r, "modify", "fail", file[r], 0, "")>>)
        /\ UNCHANGED vault
  /\ UNCHANGED <<uiVars,
                 settings, children, backups, runs, cmd, bound, file, passVars, cur>>

(***************************************************************************)
(* constructIpfsUrl.  A URL is a sequence of atoms, as a note is.          *)
(***************************************************************************)
\* this.settings.pinataGateway?.trim() || "gateway.pinata.cloud"
gateway(st) ==
  IF Trim(st.pinataGateway) = <<>> THEN <<"gateway.pinata.cloud">>
  ELSE Trim(st.pinataGateway)

\* a cleanGateway that keeps the protocol
cleanGatewayKept(g) == g

\* gateway.replace(/^https?:\/\//, "")
cleanGateway(g) ==
  IF g # <<>> /\ Head(g) \in {"https://", "http://"} THEN Tail(g) ELSE g

\* ipfsHash.replace("ipfs://", "")
cleanHash(ipfsHash) == ReplaceFirst(ipfsHash, <<"ipfs://">>, <<>>)

\* the URLSearchParams of the image optimization, as <<name, value>> pairs
\* in the order of the append calls: a number that is 0 is falsy
params(o) ==
  (IF o.width # 0 THEN <<<<"width", ToString(o.width)>>>> ELSE <<>>)
    \o (IF o.height # 0 THEN <<<<"height", ToString(o.height)>>>> ELSE <<>>)
    \o (IF o.quality # 0 THEN <<<<"quality", ToString(o.quality)>>>> ELSE <<>>)
    \o (IF o.format # "auto" THEN <<<<"format", o.format>>>> ELSE <<>>)
    \o (IF o.fit # "cover" THEN <<<<"fit", o.fit>>>> ELSE <<>>)

\* params.toString(): name=value joined by "&"
RECURSIVE ParamsToString(_)
ParamsToString(ps) ==
  IF ps = <<>> THEN <<>>
  ELSE <<ps[1][1], "=", ps[1][2]>>
         \o (IF Len(ps) = 1 THEN <<>> ELSE <<"&">>)
         \o ParamsToString(Tail(ps))

\* the url constructIpfsUrl has composed when it reaches
\* "if (this.settings.isPrivate)"
ComposedUrl(st, ipfsHash) ==
  LET url == <<"https://">> \o cleanGateway(gateway(st))
               \o <<IF st.isPrivate THEN "/files/" ELSE "/ipfs/">>
               \o cleanHash(ipfsHash)
      separator == IF Includes(url, "?") THEN "&" ELSE "?"
  IN
  IF st.imageOptimization.enabled
  THEN url \o <<separator>> \o ParamsToString(params(st.imageOptimization))
  ELSE url

\* the endpoint that signs a download link
LinkEndpoint == "https://api.pinata.cloud/v3/files/private/download_link"

\* the signed URL the service gives for a URL
SignedUrl(url) == <<"signed">> \o url

\* The answers of the download-link endpoint to a request for url: data
\* <<>> is a 2xx answer without the field "data".
GoodLinkAnswer(url) == [ok |-> TRUE, data |-> SignedUrl(url)]

BadLinkAnswers == { [ok |-> FALSE, data |-> <<>>], [ok |-> TRUE, data |-> <<>>] }

\* the fetch of constructIpfsUrl: the endpoint, the Authorization header,
\* the "url" of the JSON body and how it was answered
LinkRequest(st, url, a) ==
  [url |-> LinkEndpoint, auth |-> st.pinataJwt, body |-> url,
   answer |-> IF ~a.ok THEN "http" ELSE IF a.data = <<>> THEN "nodata"
              ELSE "ok"]

\* constructIpfsUrl(ipfsHash) under the settings st, with the answer a of
\* the download-link endpoint: the url it returns (<<>> is undefined), the
\* requests it has sent and the error it throws ("" when it returns)
constructIpfsUrl(st, ipfsHash, a) ==
  LET url == ComposedUrl(st, ipfsHash) IN
  IF ~st.isPrivate
  THEN [url |-> url, requests |-> <<>>, error |-> ""]
  ELSE IF ~a.ok
  THEN [url |-> <<>>, requests |-> <<LinkRequest(st, url, a)>>,
        error |-> "Failed to get signed URL"]
  ELSE [url |-> a.data, requests |-> <<LinkRequest(st, url, a)>>,
        error |-> ""]

\* the record of a completed constructIpfsUrl
CallOf(st, ipfsHash, res) ==
  [done |-> TRUE, hash |-> ipfsHash, st |-> st, requests |-> res.requests,
   url |-> res.url, error |-> res.error]

\* img.setAttribute("src", url): undefined becomes the text "undefined"
SrcText(url) == IF url = <<>> THEN <<"undefined">> ELSE url


\* a continuation of invocation r runs: the call it awaits completes
CommandStepOf(r) ==
  \/ LoopCall(r)
  \/ LoopEnd(r)
  \/ processFile_read(r)
  \/ processFile_match(r)
  \/ downloadRemoteImage(r)
  \/ handleImageUpload(r)
  \/ uploadToPinata_request(r)
  \/ uploadToPinata_file(r)
  \/ backupImage_exists(r)
  \/ backupImage_createFolder(r)
  \/ backupImage_readBinary(r)
  \/ backupImage_createBinary(r)
  \/ processFile_endLoop(r)
  \/ processFile_modify(r)

Next ==
  \/ ProcessCurrentFile
  \/ processFolder
  \/ processAllFiles
  \/ \E r \in Runs : LoopCall(r)
  \/ \E r \in Runs : LoopEnd(r)
  \/ \E r \in Runs : processFile_read(r)
  \/ \E r \in Runs : processFile_match(r)
  \/ \E r \in Runs : downloadRemoteImage(r)
  \/ \E r \in Runs : handleImageUpload(r)
  \/ \E r \in Runs : uploadToPinata_request(r)
  \/ \E r \in Runs : uploadToPinata_file(r)
  \/ \E r \in Runs : backupImage_exists(r)
  \/ \E r \in Runs : backupImage_createFolder(r)
  \/ \E r \in Runs : backupImage_readBinary(r)
  \/ \E r \in Runs : backupImage_createBinary(r)
  \/ \E r \in Runs : processFile_endLoop(r)
  \/ \E r \in Runs : processFile_modify(r)

Spec == Init /\ [][Next]_vars

(***************************************************************************)
(* Reading the log and the written note.                                   *)
(***************************************************************************)
IsCall(e) == e.op = "processFile" /\ e.st = "call"

CallIdxs(r) == { i \in 1..Len(log[r]) : IsCall(log[r][i]) }

\* position of the call of the running (or last) processFile in the log:
\* the last call at or before position i, 0 when there is none
RECURSIVE LastCallUpTo(_, _)
LastCallUpTo(r, i) ==
  IF i = 0 THEN 0
  ELSE IF IsCall(log[r][i]) THEN i
  ELSE LastCallUpTo(r, i - 1)

LastCallIdx(r) == LastCallUpTo(r, Len(log[r]))

\* the log positions of the pass that starts with the call at position i
PassOf(r, i) ==
  LET later == { j \in (i + 1)..Len(log[r]) : IsCall(log[r][j]) } IN
  IF later = {} THEN i..Len(log[r])
  ELSE i..((CHOOSE j \in later : \A k \in later : j <= k) - 1)

\* the log positions of the running (or last) pass
PassEvents(r) ==
  LET c == LastCallIdx(r) IN IF c = 0 THEN {} ELSE c..Len(log[r])

\* vault.modify of the running pass of invocation r has just written the
\* note
JustWritten(r) ==
  /\ last.run = r
  /\ last.op = "modify"
  /\ last.st = "ok"

\* the matches of the pass by what happened to them
ReplacedIdx(r) == { log[r][i].idx : i \in { k \in PassEvents(r) : log[r][k].op = "replace" } }
DedupIdx(r) ==
  { log[r][i].idx :
      i \in { k \in PassEvents(r) : log[r][k].op = "match" /\ log[r][k].st = "dedup" } }
FailedIdx(r) ==
  { log[r][i].idx :
      i \in { k \in PassEvents(r) :
                log[r][k].op \in {"download", "upload"} /\ log[r][k].st = "fail" } }

\* the CID the upload of match k returned
CidAt(r, k) ==
  log[r][CHOOSE i \in PassEvents(r) : log[r][i].op = "replace" /\ log[r][i].idx = k].arg

\* A written note is compared with the text that was read segment by
\* segment: the text between the matches, and for every match either a
\* fixed text or any text.
Fixed(t) == [wild |-> FALSE, text |-> t]
Wild == [wild |-> TRUE, text |-> <<>>]

RECURSIVE SegsFrom(_, _, _, _, _)
SegsFrom(c, ms, lits, k, pos) ==
  IF k > Len(ms) THEN <<Fixed(SubSeq(c, pos, Len(c)))>>
  ELSE <<Fixed(SubSeq(c, pos, ms[k].start - 1)), lits[k]>>
         \o SegsFrom(c, ms, lits, k + 1, ms[k].end + 1)

Segs(c, ms, lits) == SegsFrom(c, ms, lits, 1, 1)

\* w is the concatenation of the segments, a wild segment being any text
RECURSIVE Fits(_, _)
Fits(w, segs) ==
  IF segs = <<>> THEN w = <<>>
  ELSE LET h == Head(segs) IN
       IF h.wild
       THEN \E n \in 0..Len(w) : Fits(SubSeq(w, n + 1, Len(w)), Tail(segs))
       ELSE /\ OccursAt(w, h.text, 1)
            /\ Fits(SubSeq(w, Len(h.text) + 1, Len(w)), Tail(segs))

\* the literal of match k in the text that was read
Literal(r, k) == FullMatch(content[r], matches[r][k])

(***************************************************************************)
(* C1.  After processFile has uploaded a reference, the text that replaces *)
(* the reference in the written note is exactly the literal of the upload: *)
(* "![](ipfs://<cid>)" in public mode, "![private](ipfs://<cid>)" in       *)
(* private mode.  (Stated as the claim states it; the code wraps the       *)
(* literal in a second "![alt](...)".)                                     *)
(***************************************************************************)
C1_Lits(r) ==
  [k \in 1..Len(matches[r]) |->
     IF k \in ReplacedIdx(r)
     THEN Fixed(UploadLiteral(settings.isPrivate, CidAt(r, k)))
     ELSE Wild]

\* C1: in the written note every uploaded reference is replaced by exactly
\* the literal of its upload
C1_ExactLiteral ==
  \A r \in Runs :
    JustWritten(r) => Fits(vault[file[r]], Segs(content[r], matches[r], C1_Lits(r)))

(***************************************************************************)
(* C2.  Idempotence: when a pass over a note has completed and every       *)
(* upload it attempted succeeded, the next pass over the same note makes   *)
(* no download, no upload and no vault.modify.  (Stated as the claim       *)
(* states it.)                                                             *)
(***************************************************************************)
\* the pass called at log position i has completed without any failure
CleanPass(r, i) ==
  /\ \A k \in PassOf(r, i) : log[r][k].st # "fail"
  /\ \E k \in PassOf(r, i) :
       \/ log[r][k].op = "processFile" /\ log[r][k].st = "return"
       \/ log[r][k].op = "modify" /\ log[r][k].st = "ok"

\* the pass called at log position j touches neither the network nor the
\* note
QuietPass(r, j) ==
  \A k \in PassOf(r, j) :
    /\ log[r][k].op \notin {"download", "upload", "replace", "backup", "modify"}
    /\ ~(log[r][k].op = "match" /\ log[r][k].st \in {"remote", "local", "dedup"})

\* the calls of processFile on the file f in invocation r
CallsOn(r, f) == { k \in CallIdxs(r) : log[r][k].file = f }

\* The pass called at position j of invocation s is the next pass over the
\* note of the pass called at position i of invocation r: a later pass of
\* the same invocation, or the first pass over the note in an invocation
\* that started when no invocation was running.
NextPassOver(r, i, s, j) ==
  LET f == log[r][i].file IN
  /\ log[s][j].file = f
  /\ \/ /\ r = s /\ i < j
        /\ \A k \in CallsOn(r, f) : ~(i < k /\ k < j)
     \/ /\ r < s
        /\ log[s][1].idx = 0
        /\ \A k \in CallsOn(r, f) : k <= i
        /\ \A k \in CallsOn(s, f) : j <= k
        /\ \A q \in Runs : (r < q /\ q < s) => CallsOn(q, f) = {}

\* C2: the pass after a completed pass without failure over the same note
\* is quiet
C2_Idempotent ==
  \A r \in Runs : \A s \in Runs :
    \A i \in CallIdxs(r) : \A j \in CallIdxs(s) :
      (NextPassOver(r, i, s, j) /\ CleanPass(r, i)) => QuietPass(s, j)

(***************************************************************************)
(* C3.  Dedup correctness: in one pass over a note with N references       *)
(* whose decoded paths are identical, at most one upload completes for     *)
(* that path, and in the written note all N occurrences are replaced by    *)
(* one and the same literal.  (Stated as the claim states it.)             *)
(***************************************************************************)
\* the matches of the pass whose decoded path is that of match k
SamePath(r, k) ==
  { j \in 1..Len(matches[r]) :
      /\ ~decodeURIComponentThrows(matches[r][j].path)
      /\ decodeURIComponent(matches[r][j].path)
           = decodeURIComponent(matches[r][k].path) }

\* the uploads of the pass that returned a CID, by log position
UploadsDone(r, ks) ==
  { i \in PassEvents(r) :
      log[r][i].op = "upload" /\ log[r][i].st = "ok" /\ log[r][i].idx \in ks }

\* the texts that occur in w
SubTexts(w) ==
  { SubSeq(w, a, b) : a \in 1..Len(w), b \in 1..Len(w) }

\* in w every match of ks is replaced by the same literal
SameLiteral(r, w, ks) ==
  \E lit \in SubTexts(w) :
    Fits(w, Segs(content[r], matches[r],
                 [j \in 1..Len(matches[r]) |->
                    IF j \in ks THEN Fixed(lit) ELSE Wild]))

\* C3: at most one upload per decoded path, and one literal for all the
\* references with that path
C3_Dedup ==
  \A r \in Runs :
    /\ \A k \in ReplacedIdx(r) : Cardinality(UploadsDone(r, SamePath(r, k))) <= 1
    /\ JustWritten(r) =>
         \A k \in ReplacedIdx(r) : SameLiteral(r, vault[file[r]], SamePath(r, k))

(***************************************************************************)
(* C4.  processFile never downloads or uploads a reference whose decoded   *)
(* path contains "ipfs://" or the hostname of the pinning service, nor a   *)
(* reference classified skip; the literal of every such reference is       *)
(* unchanged in the written note; and a note that holds only such          *)
(* references is not written and causes no network call.  (Stated as the   *)
(* claim states it.)                                                       *)
(***************************************************************************)
\* the running pass has read its note: content and matches are those of
\* the pass
PassRead(r) ==
  \E k \in PassEvents(r) : log[r][k].op = "read" /\ log[r][k].st = "ok"

\* the reference is already on IPFS, or is classified skip
Exempt(m) ==
  /\ ~decodeURIComponentThrows(m.path)
  /\ LET d == decodeURIComponent(m.path) IN
     \/ IncludesIpfs(d)
     \/ IncludesPinata(d)
     \/ /\ isRemoteUrl(d)
        /\ ~isKnownCdnDomain(URL[d[1]].hostname)
        /\ ~isImageUrl(d)
     \/ /\ ~isRemoteUrl(d)
        /\ getFirstLinkpathDest(d) = ""

IsTransfer(e) ==
  \/ e.op \in {"download", "upload", "replace", "backup"}
  \/ e.op = "match" /\ e.st \in {"remote", "local"}

\* C4: a reference already on IPFS or classified skip is never
\* transferred, its literal is unchanged in the written note, and a note of
\* such references only is neither written nor causes a transfer
C4_ExemptUntouched ==
  \A r \in Runs :
    PassRead(r) =>
      /\ \A k \in PassEvents(r) :
           IsTransfer(log[r][k]) => ~Exempt(matches[r][log[r][k].idx])
      /\ JustWritten(r) =>
           Fits(vault[file[r]],
                Segs(content[r], matches[r],
                     [j \in 1..Len(matches[r]) |->
                        IF Exempt(matches[r][j]) THEN Fixed(Literal(r, j)) ELSE Wild]))
      /\ (\A j \in 1..Len(matches[r]) : Exempt(matches[r][j])) =>
           \A k \in PassEvents(r) : ~IsTransfer(log[r][k]) /\ log[r][k].op # "modify"

(***************************************************************************)
(* C5.  Backup before rewrite.                                             *)
(***************************************************************************)
\* the matches of the pass that are vault images and were replaced
LocalReplacedIdx(r) ==
  { k \in ReplacedIdx(r) :
      \E i \in PassEvents(r) :
        log[r][i].op = "match" /\ log[r][i].st = "local" /\ log[r][i].idx = k }

\* the vault image match k refers to
ImageOf(r, k) == getFirstLinkpathDest(decodeURIComponent(matches[r][k].path))

\* a copy of the vault image img exists in a backup folder
HasCopy(img) == \E p \in backups : p[Len(p)] = img

\* the calls of backupImage for match k that completed, by log position
BackupsOf(r, k) ==
  { i \in PassEvents(r) : log[r][i].op = "backup" /\ log[r][i].idx = k }

ReplaceAt(r, k) ==
  CHOOSE i \in PassEvents(r) : log[r][i].op = "replace" /\ log[r][i].idx = k

\* vault.modify of the running pass has been called, and maybe completed
ModifyCalled(r) ==
  /\ last.run = r
  /\ last.op = "modify"
  /\ last.st \in {"start", "ok"}

\* C5 as the claim states it: whenever backups are on and processFile
\* writes a note in which a reference to a vault image has been rewritten,
\* the copy of that image exists in the backup folder before vault.modify
\* completes.
C5_BackupExists ==
  \A r \in Runs :
    (ModifyCalled(r) /\ settings.backupOriginalImages) =>
      \A k \in LocalReplacedIdx(r) : HasCopy(ImageOf(r, k))

\* C5 amended: whenever backups are on and processFile writes a note in
\* which a reference to a vault image has been rewritten, backupImage has
\* been called for that image and has completed before the reference was
\* replaced, hence before vault.modify; the copy exists in the backup
\* folder when vault.modify is called unless every call of backupImage for
\* the image failed, and then the Notice "Failed to backup image" has been
\* shown.
C5_BackupAttempted ==
  \A r \in Runs :
    (ModifyCalled(r) /\ settings.backupOriginalImages) =>
      \A k \in LocalReplacedIdx(r) :
        /\ \E i \in BackupsOf(r, k) : i < ReplaceAt(r, k)
        /\ \/ HasCopy(ImageOf(r, k))
           \/ /\ \A i \in BackupsOf(r, k) : log[r][i].st = "fail"
              /\ \E n \in 1..Len(notices) :
                   notices[n] = <<"Failed to backup image", file[r]>>

\* a note is written with backups on, after the first call of backupImage
\* for its image has failed and the second has written the copy
C5_Witness ==
  \E r \in Runs :
    /\ JustWritten(r) /\ settings.backupOriginalImages
    /\ \E k \in LocalReplacedIdx(r) :
         /\ HasCopy(ImageOf(r, k))
         /\ \E i \in BackupsOf(r, k) : log[r][i].st = "fail" /\ i < ReplaceAt(r, k)

(***************************************************************************)
(* C6.  Failure of one image.                                              *)
(***************************************************************************)
\* the failed downloads and uploads of the notes, and the Notices for them
TransferFailures(f) ==
  Cardinality({ p \in UNION { {<<r, i>> : i \in 1..Len(log[r])} : r \in Runs } :
                  /\ log[p[1]][p[2]].op \in {"download", "upload"}
                  /\ log[p[1]][p[2]].st = "fail"
                  /\ log[p[1]][p[2]].file = f })

FailureNotices(f) ==
  Cardinality({ n \in 1..Len(notices) :
                  \/ notices[n] = <<"Failed to process remote image", f>>
                  \/ notices[n] = <<"Failed to process local image", f>> })

\* the for-of loop of the running pass is over
LoopOver(r) ==
  /\ PassRead(r)
  /\ \E k \in PassEvents(r) :
       \/ log[r][k].op = "modify"
       \/ log[r][k].op = "processFile" /\ log[r][k].st = "return"

\* the matches of the pass the loop has reached
ReachedIdx(r) ==
  { log[r][i].idx : i \in { k \in PassEvents(r) : log[r][k].op = "match" } }

\* the literal of the upload of match k occurs in w
HasUploadOf(r, w, k) ==
  \E p \in 1..Len(w) :
    OccursAt(w, UploadLiteral(settings.isPrivate, CidAt(r, k)), p)

\* C6: when the download or the upload of a reference fails during a pass
\* of processFile (the download of a remote image, the read of a vault
\* image or of the bytes of a blob, the request to the pinning service),
\* that reference keeps its original literal in the note that is written.
\* (Stated as the claim states it; the replacement made for a later
\* reference with the same path is made over the whole working text and
\* rewrites the failed reference too.)
C6_FailedKeepsLiteral ==
  \A r \in Runs :
    JustWritten(r) =>
      Fits(vault[file[r]],
           Segs(content[r], matches[r],
                [k \in 1..Len(matches[r]) |->
                   IF k \in FailedIdx(r) THEN Fixed(Literal(r, k)) ELSE Wild]))

(***************************************************************************)
(* C7.  In processFolder and processAllFiles a failure to read or to write *)
(* one note, or any failure inside its pass, does not abort the batch:     *)
(* every enumerated markdown file is passed to processFile exactly once,   *)
(* in the order of the enumeration, whatever failed in the files before.   *)
(***************************************************************************)
CommandIdxs(r) ==
  { i \in 1..Len(log[r]) : log[r][i].op = "command" /\ log[r][i].st = "start" }

\* position of the start of the running (or last) command in the log
LastCommandIdx(r) ==
  IF CommandIdxs(r) = {} THEN 0
  ELSE CHOOSE i \in CommandIdxs(r) : \A j \in CommandIdxs(r) : j <= i

\* the files passed to processFile from log position i on, in order
RECURSIVE CallsFrom(_, _)
CallsFrom(r, i) ==
  IF i > Len(log[r]) THEN <<>>
  ELSE (IF IsCall(log[r][i]) THEN <<log[r][i].file>> ELSE <<>>) \o CallsFrom(r, i + 1)

\* the files passed to processFile by the running (or last) command
RunCalls(r) == CallsFrom(r, LastCommandIdx(r) + 1)

\* the files the command enumerates
Enumerated ==
  IF cmd.kind = "folder" THEN markdownFiles(children, cmd.target)
  ELSE getMarkdownFiles(children)

\* invocation r is a batch command that has enumerated its files: it has a
\* folder to work on and the enumeration did not throw
HasEnumerated(r) ==
  /\ cmd.kind \in {"folder", "all"}
  /\ cmd.target # "" \/ cmd.kind = "all"
  /\ r <= runs
  /\ \A i \in 1..Len(log[r]) : log[r][i].op # "enumerate"

\* the passes of the command of invocation r, by the log position of their
\* call, in which something failed: the read or the write of the note, or
\* a download, an upload or a backup of one of its images
FailedPasses(r) ==
  { c \in CallIdxs(r) :
      c > LastCommandIdx(r) /\ \E i \in PassOf(r, c) : log[r][i].st = "fail" }

\* C7: the files passed to processFile by a batch command and the files
\* still in its loop are the enumerated files, each once, whatever failed;
\* when the command is over every enumerated file has been passed
C7_BatchNotAborted ==
  \A r \in Runs :
    HasEnumerated(r) =>
      /\ RunCalls(r) \o queue[r] = Enumerated
      /\ bpc[r] = "idle" => RunCalls(r) = Enumerated
      /\ \A i \in 1..Len(Enumerated) : \A j \in 1..Len(Enumerated) :
           Enumerated[i] = Enumerated[j] => i = j

\* the folder command over a folder with two notes has ended: in the pass
\* over the first note the upload of its image failed, the second note was
\* still passed to processFile, and its pass failed too
C7_Witness ==
  \E r \in Runs :
    /\ cmd.kind = "folder" /\ HasEnumerated(r) /\ bpc[r] = "idle"
    /\ Len(RunCalls(r)) = 2
    /\ Cardinality(FailedPasses(r)) = 2
    /\ \E c \in FailedPasses(r) :
         /\ \E d \in CallIdxs(r) : d > c
         /\ \E i \in PassOf(r, c) : log[r][i].op = "upload" /\ log[r][i].st = "fail"

\* the command over the whole vault has ended after the read of one note
\* and the write of another failed: the note after each of them was passed
\* to processFile
C7_WitnessAll ==
  \E r \in Runs :
    /\ cmd.kind = "all" /\ HasEnumerated(r) /\ bpc[r] = "idle"
    /\ Len(RunCalls(r)) = 3
    /\ \E i \in PassOf(r, LastCommandIdx(r) + 1) :
         /\ log[r][i].op = "read" /\ log[r][i].st = "fail"
         /\ i + 1 \in CallIdxs(r)
    /\ \E i \in 1..Len(log[r]) :
         /\ i > LastCommandIdx(r)
         /\ log[r][i].op = "modify" /\ log[r][i].st = "fail"
         /\ i + 1 \in CallIdxs(r)

(***************************************************************************)
(* C8.  Within one batch run the pipeline is strictly sequential: at any   *)
(* moment at most one asynchronous call is in flight, so at most one       *)
(* reference is being downloaded or uploaded; the uploads of a note start  *)
(* and complete in the document order of its references; and the pass over *)
(* the next note starts only when the pass over the note before it has     *)
(* finished, its write included.                                           *)
(***************************************************************************)
\* the download or upload of a reference starts
IsStart(e) == e.op = "match" /\ e.st \in {"remote", "local"}

\* the download or upload of a reference is over
IsDone(e) ==
  \/ e.op = "upload"
  \/ e.op = "download" /\ e.st = "fail"

\* processFile returns
IsPassEnd(e) ==
  \/ e.op = "processFile" /\ e.st = "return"
  \/ e.op = "modify" /\ e.st \in {"ok", "fail"}
  \/ e.op = "read" /\ e.st = "fail"

\* the log positions i < j belong to the same pass
SamePass(r, i, j) == \A c \in CallIdxs(r) : c <= i \/ c > j

\* C8: at most one call is in flight; in a pass the transfers start and
\* complete by increasing match index, each starting after the one before
\* it is over; processFile is called only when the call before it has
\* returned.  The log only grows, so every event has been the newest one
\* in some state: the order of the events is stated for the newest event
\* and the events of its pass before it.
C8_Sequential ==
  \A r \in Runs :
    /\ Cardinality(inflight[r]) <= 1
    /\ log[r] # <<>> =>
         LET j == Len(log[r]) IN
         /\ \A i \in PassEvents(r) \ {j} :
              /\ (IsStart(log[r][i]) /\ IsStart(log[r][j])) =>
                   /\ log[r][i].idx < log[r][j].idx
                   /\ \E d \in (i + 1)..(j - 1) :
                        IsDone(log[r][d]) /\ log[r][d].idx = log[r][i].idx
              /\ (IsDone(log[r][i]) /\ IsDone(log[r][j])) => log[r][i].idx < log[r][j].idx
              /\ (IsStart(log[r][i]) /\ IsDone(log[r][j])) =>
                   log[r][i].idx <= log[r][j].idx
         /\ IsCall(log[r][j]) =>
              /\ j > 1
              /\ \/ log[r][j - 1].op = "command"
                 \/ IsPassEnd(log[r][j - 1])

\* in a batch, the pass over a note has made two uploads one after the
\* other and has written the note, and the pass over the next note has
\* started
C8_Witness ==
  \E r \in Runs :
    /\ cmd.kind = "all"
    /\ \E c \in CallIdxs(r) :
         /\ log[r][c - 1].op = "modify" /\ log[r][c - 1].st = "ok"
         /\ \E i \in 1..(c - 1) : \E j \in 1..(c - 1) :
              /\ i < j /\ SamePass(r, i, j) /\ SamePass(r, j, c - 1)
              /\ log[r][i].op = "upload" /\ log[r][i].st = "ok" /\ log[r][i].idx = 1
              /\ log[r][j].op = "upload" /\ log[r][j].st = "ok" /\ log[r][j].idx = 2

(***************************************************************************)
(* C10.  The folder command.                                               *)
(***************************************************************************)
\* the files passed to processFile so far
Called(r) == { log[r][i].file : i \in CallIdxs(r) }

\* the markdown notes that are children of the folder
NotesIn(folder) ==
  { children[folder][i] : i \in 1..Len(children[folder]) } \cap MdFiles

\* the markdown notes in the folder and in its descendant folders
RECURSIVE NotesBelow(_, _)
NotesBelow(folder, depth) ==
  IF depth = 0 THEN {}
  ELSE NotesIn(folder) \cup
       UNION { NotesBelow(children[folder][i], depth - 1) :
                 i \in { n \in 1..Len(children[folder]) :
                           children[folder][n] \in Folders } }

\* the folder command has run over its folder to its end
FolderRunOver(r) ==
  cmd.kind = "folder" /\ HasEnumerated(r) /\ bpc[r] = "idle"

\* C10: the folder command is recursive: processFolder applies
\* processFile to every markdown note in the folder and in all of its
\* descendant folders.  (Stated as the claim states it; the code filters
\* folder.children only and never descends.)
C10_Recursive ==
  \A r \in Runs :
    FolderRunOver(r) => Called(r) = NotesBelow(cmd.target, Cardinality(Folders))

(***************************************************************************)
(* C9.  Reference integrity: for every pass of processFile, the written    *)
(* note differs from the text that was read only at the literals of the    *)
(* references that were uploaded or deduplicated in the pass; all other    *)
(* text, the literals of the failed and of the skipped references          *)
(* included, is the same.  (Stated as the claim states it.)                *)
(***************************************************************************)
\* C9: the written note is the text read, with other text only in the
\* place of the uploaded and deduplicated references
C9_ReferenceIntegrity ==
  \A r \in Runs :
    JustWritten(r) =>
      Fits(vault[file[r]],
           Segs(content[r], matches[r],
                [k \in 1..Len(matches[r]) |->
                   IF k \in ReplacedIdx(r) \cup DedupIdx(r)
                   THEN Wild ELSE Fixed(Literal(r, k))]))

(***************************************************************************)
(* C11.  A 2xx answer without the CID field.                               *)
(***************************************************************************)
\* the matches of the pass whose upload request was answered 2xx without
\* the CID field
NoCidIdx(r) ==
  { log[r][i].idx :
      i \in { k \in PassEvents(r) : log[r][k].op = "request" /\ log[r][k].st = "nocid" } }

\* C11: when the upload endpoint answers 2xx without the CID field
\* (IpfsHash in the public protocol, data.cid in the private one),
\* uploadToPinata fails: the upload of the reference is recorded as failed,
\* no replacement is made for it, and the reference keeps its literal in
\* the note that is written.  (Stated as the claim states it; the
\* replacement made for a later reference with the same path is made over
\* the whole working text and rewrites the reference too.)
C11_NoCidKeepsReference ==
  \A r \in Runs :
    /\ \A i \in PassEvents(r) :
         (log[r][i].op = "request" /\ log[r][i].st = "nocid") =>
           /\ i < Len(log[r])
           /\ log[r][i + 1].op = "upload"
           /\ log[r][i + 1].st = "fail"
           /\ log[r][i + 1].idx = log[r][i].idx
    /\ NoCidIdx(r) \cap ReplacedIdx(r) = {}
    /\ JustWritten(r) =>
         Fits(vault[file[r]],
              Segs(content[r], matches[r],
                   [k \in 1..Len(matches[r]) |->
                      IF k \in NoCidIdx(r) THEN Fixed(Literal(r, k)) ELSE Wild]))

\* the first two parts of C11 alone: the upload fails and no replacement
\* is made for the reference
C11_UploadFails ==
  \A r \in Runs :
    /\ \A i \in PassEvents(r) :
         (log[r][i].op = "request" /\ log[r][i].st = "nocid") =>
           /\ i < Len(log[r])
           /\ log[r][i + 1].op = "upload"
           /\ log[r][i + 1].st = "fail"
           /\ log[r][i + 1].idx = log[r][i].idx
    /\ NoCidIdx(r) \cap ReplacedIdx(r) = {}

(***************************************************************************)
(* C12.  The private protocol: the request that carries the file is sent   *)
(* only after the sign request has returned a presigned URL.  (Stated as   *)
(* the claim states it.)                                                   *)
(***************************************************************************)
\* the sign request at log position i was not answered with a presigned
\* URL: not 2xx, or 2xx without "data"
SignFailedAt(r, i) ==
  /\ log[r][i].op = "request"
  /\ log[r][i].arg = SignEndpoint
  /\ log[r][i].st \in {"http", "nodata"}

\* C12: a request that carries the file follows the sign request only when
\* the sign request was answered with a presigned URL; when the sign
\* endpoint answers non-2xx, or 2xx without "data", the upload fails and no
\* second request is made
C12_SignBeforeUpload ==
  \A r \in Runs :
    \A i \in 1..Len(log[r]) :
      /\ SignFailedAt(r, i) =>
           /\ i < Len(log[r])
           /\ log[r][i + 1].op = "upload"
           /\ log[r][i + 1].st = "fail"
      /\ (log[r][i].op = "request" /\ log[r][i].arg \notin {SignEndpoint, PinEndpoint})
           =>
           /\ i > 1
           /\ log[r][i - 1].op = "request"
           /\ log[r][i - 1].arg = SignEndpoint
           /\ log[r][i - 1].st = "ok"

(***************************************************************************)
(* C13.  The empty credential.                                             *)
(***************************************************************************)
\* handleImageUpload is called for match log[i].idx at log position i
IsAttempt(r, i) ==
  \/ log[r][i].op = "match" /\ log[r][i].st = "local"
  \/ log[r][i].op = "download" /\ log[r][i].st = "ok"

\* C13: when the bearer credential is empty, every upload attempt fails
\* before any request is sent to the pinning service, each attempt is
\* reported by one Notice, and no note is modified: no replacement is made
\* and vault.modify is never called.
C13_ConfigMissing ==
  \A r \in Runs :
    settings.pinataJwt = "" =>
      /\ \A i \in 1..Len(log[r]) :
           /\ log[r][i].op \notin {"request", "replace", "backup", "modify"}
           /\ ~(log[r][i].op = "upload" /\ log[r][i].st = "ok")
           /\ (IsAttempt(r, i) /\ i < Len(log[r])) =>
                /\ log[r][i + 1].op = "upload"
                /\ log[r][i + 1].st = "fail"
                /\ log[r][i + 1].idx = log[r][i].idx
      /\ \A f \in MdFiles : FailureNotices(f) = TransferFailures(f)
      /\ modified[r] = FALSE
      /\ PassRead(r) => newContent[r] = content[r] /\ vault[file[r]] = content[r]

\* with an empty credential a pass over a note with two images has ended:
\* both uploads failed, two Notices were shown and the note is as it was
C13_Witness ==
  \E r \in Runs :
    /\ settings.pinataJwt = ""
    /\ pc[r] = "none" /\ PassRead(r)
    /\ Cardinality({ i \in PassEvents(r) :
                       log[r][i].op = "upload" /\ log[r][i].st = "fail" }) = 2
    /\ FailureNotices(file[r]) = 2
    /\ vault[file[r]] = content[r]

(***************************************************************************)
(* C14.  A failed backup.                                                  *)
(***************************************************************************)
BackupFailures(f) ==
  Cardinality({ p \in UNION { {<<r, i>> : i \in 1..Len(log[r])} : r \in Runs } :
                  /\ log[p[1]][p[2]].op = "backup"
                  /\ log[p[1]][p[2]].st = "fail"
                  /\ log[p[1]][p[2]].file = f })

BackupNotices(f) ==
  Cardinality({ n \in 1..Len(notices) :
                  notices[n] = <<"Failed to backup image", f>> })

\* the matches of the pass with a failed backup
BackupFailedIdx(r) ==
  { log[r][i].idx :
      i \in { k \in PassEvents(r) : log[r][k].op = "backup" /\ log[r][k].st = "fail" } }

\* C14: when writing the backup copy fails after a vault image was
\* uploaded, a Notice is shown for the failed backup, the reference is
\* still replaced with the literal of the uploaded CID, which is in the
\* note that is written, and the pass goes on with the next reference.
\* (The log only grows: a failed backup that is the newest event is the
\* one processFile calls after the replacement; the one handleImageUpload
\* calls is followed by the replacement in the same step.)
C14_BackupFailed ==
  \A r \in Runs :
    /\ \A f \in MdFiles : BackupNotices(f) = BackupFailures(f)
    /\ (last.run = r /\ last.op = "backup" /\ last.st = "fail") =>
         /\ Len(log[r]) > 1
         /\ log[r][Len(log[r]) - 1].op = "replace"
         /\ log[r][Len(log[r]) - 1].idx = last.idx
    /\ LoopOver(r) =>
         /\ ReachedIdx(r) = 1..Len(matches[r])
         /\ BackupFailedIdx(r) # {} => \E k \in PassEvents(r) : log[r][k].op = "modify"
    /\ JustWritten(r) =>
         \A k \in BackupFailedIdx(r) : HasUploadOf(r, vault[file[r]], k)

\* a note with two references is written after the backup of the first
\* image failed: the first reference was replaced and the second reached
C14_Witness ==
  \E r \in Runs :
    /\ JustWritten(r)
    /\ 1 \in BackupFailedIdx(r)
    /\ 1 \in ReplacedIdx(r)
    /\ 2 \in ReachedIdx(r)
    /\ HasUploadOf(r, vault[file[r]], 1)
    /\ BackupNotices(file[r]) >= 1

(***************************************************************************)
(* The editor, the rendered document and the settings tab.                 *)
(***************************************************************************)
\* user interface events (commands included) in one behaviour
MaxActs == 2
\* img elements in the rendered document
MaxImgs == 2
\* firings of the refresh interval that find an element to refresh
MaxTicks == 1
\* the images one paste or drop event carries, at most
MaxItems == 2

\* The user acts at most MaxActs times, commands included.  Nothing in
\* the code makes the user wait: an event is accepted while a command, an
\* upload or a request is pending.
CanAct == runs + acts < MaxActs

\* the locals of the invocations of the command
runVars == <<inflight, bpc, queue, pc, file, passVars, cur>>

\* the command "Process Current File" invoked from the palette
CommandPalette ==
  /\ CanAct
  /\ ProcessCurrentFile

\* What the user enters in the settings tab: the credential; as gateway
\* nothing, a domain, a host name without a dot; as backup folder nothing
\* or a name; in the fields of the width and of the height a number with a
\* unit, zero, a word; a position of the quality slider, a format and a fit
\* of the dropdowns.
Inputs ==
  [pinataJwt |-> {"", "jwt"},
   pinataGateway |-> { <<>>, <<"my.gw">>, <<"localhost">> },
   backupFolder |-> { <<>>, <<"other">> },
   size |-> {"12px", "0", "abc"},
   quality |-> {50},
   format |-> {"auto", "webp"},
   fit |-> {"cover", "contain"}]

\* parseInt(value): the leading digits of the text, NaN without any
parseInt(value) ==
  CASE value = "12px" -> [nan |-> FALSE, n |-> 12]
    [] value = "0" -> [nan |-> FALSE, n |-> 0]
    [] OTHER -> [nan |-> TRUE, n |-> 0]

\* The outcome of an onChange up to its await of saveSettings is the
\* settings, the Notice shown, if any, and whether the handler goes on to
\* this.display() after the await.
\* onChange of the field "Pinata JWT"
pinataJwt_onChange(st, value) ==
  [st |-> [st EXCEPT !.pinataJwt = value], notice |-> "", display |-> FALSE]

\* onChange of the field "Pinata Gateway": a value without a dot
\* (value.includes(".") over the atoms of the gateways) is refused with a
\* Notice
pinataGateway_onChange(st, value) ==
  IF value # <<>>
     /\ ~\E i \in 1..Len(value) : value[i] \in {"my.gw", "gateway.pinata.cloud"}
  THEN [st |-> st, notice |-> "Please enter a valid gateway domain",
        display |-> FALSE]
  ELSE [st |-> [st EXCEPT !.pinataGateway = value], notice |-> "",
        display |-> FALSE]

\* onChange of the toggles "Use Private IPFS", "Auto-upload on Paste",
\* "Auto-upload on Drag & Drop" and "Backup Original Images": the toggle
\* shows the field, and a click gives the other value
toggle_onChange(st, k) ==
  [st |-> [st EXCEPT ![k] = ~@], notice |-> "", display |-> FALSE]

\* onChange of the field "Backup Folder": value || ".image_backup"
backupFolder_onChange(st, value) ==
  [st |-> [st EXCEPT !.backupFolder =
                       IF value = <<>> THEN <<".image_backup">> ELSE value],
   notice |-> "", display |-> FALSE]

\* onChange of the toggle "Enable Image Optimization": after saveSettings
\* it renders the tab again
enabled_onChange(st) ==
  [st |-> [st EXCEPT !.imageOptimization.enabled = ~@], notice |-> "",
   display |-> TRUE]

\* onChange of the fields "Width" and "Height" (k): a value that parseInt
\* does not read as a number of at least 1 is refused with a Notice
size_onChange(st, k, value) ==
  LET size == parseInt(value) IN
  IF size.nan \/ size.n < 1
  THEN [st |-> st,
        notice |-> IF k = "width" THEN "Please enter a valid width"
                   ELSE "Please enter a valid height",
        display |-> FALSE]
  ELSE [st |-> [st EXCEPT !.imageOptimization[k] = size.n], notice |-> "",
        display |-> FALSE]

\* onChange of the slider "Quality" and of the dropdowns "Format" and
\* "Fit" (k)
option_onChange(st, k, value) ==
  [st |-> [st EXCEPT !.imageOptimization[k] = value], notice |-> "",
   display |-> FALSE]

\* An onChange of the settings tab, among the handlers the last display()
\* has registered (those of the optimization are there only when the
\* optimization was enabled then), up to its await: the field of
\* this.settings is assigned and saveSettings is called, or the value is
\* refused with a Notice.
SettingChange ==
  /\ CanAct
  /\ acts' = acts + 1
  /\ \E c \in
         { pinataJwt_onChange(settings, v) : v \in Inputs.pinataJwt }
           \cup { pinataGateway_onChange(settings, v) :
                    v \in Inputs.pinataGateway }
           \cup { toggle_onChange(settings, k) :
                    k \in {"isPrivate", "autoUploadPaste", "autoUploadDrag",
                           "backupOriginalImages"} }
           \cup { backupFolder_onChange(settings, v) :
                    v \in Inputs.backupFolder }
           \cup { enabled_onChange(settings) }
           \cup (IF shown
                 THEN { size_onChange(settings, k, v) :
                          k \in {"width", "height"}, v \in Inputs.size }
                        \cup { option_onChange(settings, k, v) :
                                 k \in {"quality"}, v \in Inputs.quality }
                        \cup { option_onChange(settings, k, v) :
                                 k \in {"format"}, v \in Inputs.format }
                        \cup { option_onChange(settings, k, v) :
                                 k \in {"fit"}, v \in Inputs.fit }
                 ELSE {}) :
       /\ settings' = c.st
       /\ notices' = IF c.notice = "" THEN notices
                      ELSE Append(notices, <<c.notice, "">>)
       /\ pending' = IF c.display
                      THEN pending \cup {[kind |-> "display", n |-> acts + 1]}
                      ELSE pending
  /\ UNCHANGED <<children, vault, backups, log, last, faults, runs, cmd,
                 bound, runVars, handlers, shown, editor, dom, call, ticks,
                 clipboard>>

\* "await this.plugin.saveSettings()" completes in the onChange of "Enable
\* Image Optimization", and this.display() renders the tab from the
\* settings as they are now; or saveData rejects, and the tab stays as it is
display ==
  \E p \in pending :
    /\ p.kind = "display"
    /\ pending' = pending \ {p}
    /\ \/ /\ shown' = settings.imageOptimization.enabled
          /\ UNCHANGED faults
       \/ /\ CanFail
          /\ faults' = faults + 1
          /\ UNCHANGED shown
    /\ UNCHANGED <<settings, children, vault, backups, notices, log, last,
                   runs, cmd, bound, runVars, handlers, editor, dom, call,
                   acts, ticks, clipboard>>

\* The workspace fires ev with an image on the clipboard or among the
\* dropped files.  A registered handler (handlePaste, handleDrop) runs up
\* to its first await; without a handler the plugin does nothing.
EditorEvent(ev, origin) ==
  /\ CanAct
  /\ acts' = acts + 1
  /\ IF ev \in handlers
     THEN /\ pending' =
               pending \cup {[kind |-> "upload", el |-> acts + 1,
                              origin |-> origin, left |-> clipboard - 1]}
          /\ Log(0, <<Ev(0, origin, "handler", "", acts + 1, "")>>)
     ELSE /\ Log(0, <<Ev(0, origin, "default", "", acts + 1, "")>>)
          /\ UNCHANGED pending
  /\ UNCHANGED <<settings, children, vault, backups, notices, faults, runs,
                 cmd, bound, runVars, handlers, shown, editor, dom, call, ticks,
                 clipboard>>

editorPaste == EditorEvent("editor-paste", "paste")

editorDrop == EditorEvent("editor-drop", "drop")

\* editor.replaceRange(url, cursor): url is inserted at the cursor
replaceRange(text, url, cursor) ==
  SubSeq(text, 1, cursor) \o url \o SubSeq(text, cursor + 1, Len(text))

\* "return this.settings.isPrivate ? ..." of handleImageUpload: the
\* setting as it is when uploadToPinata has returned
LiteralVisibility(now, atStart) == now.isPrivate

\* a handler whose catch is inside the loop over the images of the event
AfterFailedItemContinues(left) == left

\* the images of the event still to upload after a failure: the try of
\* handlePaste and of handleDrop is around the for loop, so the catch ends it
AfterFailedItem(left) == 0

\* "await this.handleImageUpload(blob)" completes in handlePaste or
\* handleDrop for the call p, uploadToPinata having thrown or returned res:
\* the literal is inserted at editor.getCursor(), wherever the cursor is
\* by then, and the loop goes on to the next
\* image of the event, or the catch shows a Notice.  lg is what the call
\* adds to the log.
EditorUploadDone(p, res, lg) ==
  LET left == IF res.cid = "" THEN AfterFailedItem(p.left) ELSE p.left IN
  /\ pending' =
       (pending \ {p})
         \cup (IF left = 0 THEN {}
               ELSE {[kind |-> "upload", el |-> p.el, origin |-> p.origin,
                      left |-> left - 1]})
  /\ IF res.cid = ""
     THEN /\ notices' =
               Append(notices,
                      <<IF p.origin = "paste"
                        THEN "Failed to upload pasted image"
                        ELSE "Failed to upload dropped image", "">>)
          /\ Log(0, Append(lg, Ev(0, p.origin, "fail", "", p.el, "")))
          /\ UNCHANGED editor
     ELSE /\ \E cursor \in 0..Len(editor) :
               editor' =
                 replaceRange(editor,
                              UploadLiteral(
                                LiteralVisibility(settings, p.st),
                                res.cid),
                              cursor)
          /\ Log(0, Append(lg, Ev(0, p.origin, "insert", "", p.el, res.cid)))
          /\ UNCHANGED notices

\* the image of the event the call p uploads: the first or a later one
BlobOf(p) == IF p.left = clipboard - 1 THEN "blob" ELSE "blob2"

\* "await file.arrayBuffer()" completes in handleImageUpload and
\* uploadToPinata starts: it reads the credential and the visibility of
\* the settings and sends its first request, or throws without one; or
\* arrayBuffer rejects, and handleImageUpload rethrows
uploadToPinata_start ==
  \E p \in pending :
    /\ p.kind = "upload"
    /\ \/ /\ IF NotConfigured(settings)
             THEN EditorUploadDone(p, uploadToPinata(settings,
                                                     GoodResponse(BlobOf(p))),
                                   <<>>)
             ELSE /\ pending' =
                       (pending \ {p})
                         \cup {[kind |-> "uploading", el |-> p.el,
                                origin |-> p.origin, left |-> p.left,
                                st |-> UploadSettings(settings)]}
                  /\ UNCHANGED <<notices, log, last, editor>>
          /\ UNCHANGED faults
       \/ /\ CanFail
          /\ faults' = faults + 1
          /\ EditorUploadDone(p, Throws(<<>>, "arrayBuffer failed"), <<>>)
    /\ UNCHANGED <<settings, children, vault, backups, runs, cmd,
                   bound, runVars, handlers, shown, dom, call, acts, ticks,
                   clipboard>>

\* the first request of uploadToPinata is answered for a call of an event
\* handler: the public upload and a refused sign request end the call,
\* after any other answer of the sign endpoint the file is sent
editorUpload_request ==
  \E p \in pending :
    /\ p.kind = "uploading"
    /\ \E a \in FirstAnswers(p.st, BlobOf(p), CanFail) :
         LET res == uploadToPinata(p.st, a) IN
         /\ faults' = IF (IF p.st.isPrivate
                           THEN SignOf(a) # SignOf(GoodResponse(""))
                           ELSE a \in BadResponses)
                       THEN faults + 1 ELSE faults
         /\ IF Len(res.requests) <= 1
            THEN EditorUploadDone(p, res,
                                  RequestEvents(0, res.requests, "", p.el))
            ELSE /\ pending' =
                      (pending \ {p})
                        \cup {[kind |-> "signed", el |-> p.el,
                               origin |-> p.origin, left |-> p.left,
                               st |-> p.st, sign |-> SignOf(a)]}
                 /\ Log(0, RequestEvents(0, SubSeq(res.requests, 1, 1), "",
                                         p.el))
                 /\ UNCHANGED <<notices, editor>>
    /\ UNCHANGED <<settings, children, vault, backups, runs, cmd, bound,
                   runVars, handlers, shown, dom, call, acts, ticks, clipboard>>

\* the request that carries the file of a private upload is answered for
\* a call of an event handler
editorUpload_file ==
  \E p \in pending :
    /\ p.kind = "signed"
    /\ \E a \in FileAnswers(p.sign, BlobOf(p), CanFail) :
         LET res == uploadToPinata(p.st, a) IN
         /\ faults' = IF a \in BadResponses /\ a.signData # ""
                       THEN faults + 1 ELSE faults
         /\ EditorUploadDone(p, res,
                             RequestEvents(0, SubSeq(res.requests, 2,
                                                     Len(res.requests)),
                                           "", p.el))
    /\ UNCHANGED <<settings, children, vault, backups, runs, cmd, bound,
                   runVars, handlers, shown, dom, call, acts, ticks, clipboard>>

\* the img element the renderer makes of an image of the note
ImgOf(m) ==
  [alt |-> m.alt, src |-> m.path, hash |-> <<>>, private |-> FALSE,
   error |-> FALSE]

\* src?.startsWith("ipfs://")
IsIpfsImg(img) == img.src # <<>> /\ Head(img.src) = "ipfs://"

\* The post processor on one img, up to the call of constructIpfsUrl: the
\* hash is kept in data-ipfs-hash, an img whose alt text is "private" gets
\* data-pinata-private, and the src is a placeholder until the URL is
\* loaded.
Marked(img) ==
  IF ~IsIpfsImg(img) THEN img
  ELSE [img EXCEPT !.hash = ReplaceFirst(img.src, <<"ipfs://">>, <<>>),
                   !.private = (img.alt = <<"private">>),
                   !.src = <<"data:image/svg+xml">>]

\* the constructIpfsUrl calls of the elements els, all made under the
\* settings st by the n-th rendering or firing, that wait for the
\* download-link endpoint
LinkCalls(d, els, st, origin, n) ==
  { [kind |-> "link", el |-> i, hash |-> d[i].hash, st |-> st,
     origin |-> origin, n |-> n] : i \in els }

\* The elements els have their src set to the URL constructIpfsUrl returns
\* without a request.
Loaded(d, els, st) ==
  [i \in DOMAIN d |->
     IF i \in els
     THEN [d[i] EXCEPT
             !.src = SrcText(constructIpfsUrl(st, d[i].hash,
                                              GoodLinkAnswer(<<>>)).url)]
     ELSE d[i]]

\* constructIpfsUrl is called for the elements els of d: in private mode
\* every call waits for its fetch, else every call has returned
Construct(d, els, origin, n) ==
  IF settings.isPrivate
  THEN /\ dom' = d
       /\ pending' = pending \cup LinkCalls(d, els, settings, origin, n)
       /\ UNCHANGED call
  ELSE /\ dom' = Loaded(d, els, settings)
       /\ call' =
            IF els = {} THEN call
            ELSE LET i == CHOOSE j \in els : \A k \in els : k <= j IN
                 CallOf(settings, d[i].hash,
                        constructIpfsUrl(settings, d[i].hash,
                                         GoodLinkAnswer(<<>>)))
       /\ UNCHANGED pending

\* The note in the editor is rendered: the markdown post processor runs on
\* its img elements.
postProcess ==
  /\ CanAct
  /\ LET ms == matchAll(editor)
         n == Len(dom)
         d == dom \o [k \in 1..Len(ms) |-> Marked(ImgOf(ms[k]))]
     IN
     /\ ms # <<>>
     /\ n + Len(ms) <= MaxImgs
     /\ Construct(d, { n + k : k \in { j \in 1..Len(ms) :
                                        IsIpfsImg(ImgOf(ms[j])) } },
                  "render", acts + 1)
  /\ acts' = acts + 1
  /\ UNCHANGED <<settings, children, vault, backups, notices, log, last, faults, runs, cmd, bound, runVars,
                 handlers, shown, editor, ticks,
                 clipboard>>

\* an interval that refreshes every img that has a hash
privateImagesAll(d) == DOMAIN d

\* document.querySelectorAll('img[data-pinata-private="true"]')
privateImages(d) == { i \in DOMAIN d : d[i].private }

\* the elements the interval calls constructIpfsUrl for
RefreshTargets(d) == { i \in privateImages(d) : d[i].hash # <<>> }

\* The refresh interval fires.  (A firing that finds no element to refresh
\* changes nothing.)
refreshTick ==
  /\ ticks < MaxTicks
  /\ RefreshTargets(dom) # {}
  /\ ticks' = ticks + 1
  /\ Construct(dom, RefreshTargets(dom), "refresh", ticks + 1)
  /\ UNCHANGED <<settings, children, vault, backups, notices, log, last, faults, runs, cmd, bound, runVars,
                 handlers, shown, editor, acts,
                 clipboard>>

\* The download-link endpoint answers a constructIpfsUrl: then sets the
\* src, the catch of the post processor adds the class ipfs-load-error and
\* the catch of the interval only logs.
linkResponse ==
  \E p \in pending :
    /\ p.kind = "link"
    /\ \E a \in {GoodLinkAnswer(ComposedUrl(p.st, p.hash))}
                  \cup (IF CanFail THEN BadLinkAnswers ELSE {}) :
         LET res == constructIpfsUrl(p.st, p.hash, a) IN
         /\ pending' = pending \ {p}
         /\ faults' = IF a \in BadLinkAnswers THEN faults + 1 ELSE faults
         /\ call' = CallOf(p.st, p.hash, res)
         /\ dom' =
              IF res.error = ""
              THEN [dom EXCEPT ![p.el].src = SrcText(res.url)]
              ELSE IF p.origin = "render"
              THEN [dom EXCEPT ![p.el].error = TRUE]
              ELSE dom
    /\ UNCHANGED <<settings, children, vault, backups, notices, log, last, runs, cmd, bound, runVars,
                   handlers, shown, editor, acts, ticks,
                 clipboard>>

\* the settings of the user interface runs: both automatic uploads on, or
\* both off; as gateway none, a domain, a URL with white space around it;
\* the image optimization off, and on with no height, another format and
\* the default fit
UISettings ==
  { [DEFAULT_SETTINGS EXCEPT !.pinataJwt = "jwt", !.isPrivate = p,
                             !.autoUploadPaste = au, !.autoUploadDrag = au,
                             !.pinataGateway = g, !.imageOptimization = o] :
      p \in BOOLEAN, au \in BOOLEAN,
      g \in { <<>>, <<"my.gw">>, <<" ", "https://", "my.gw", " ">> },
      o \in { DEFAULT_SETTINGS.imageOptimization,
              [enabled |-> TRUE, width |-> 800, height |-> 0, quality |-> 80,
               format |-> "webp", fit |-> "cover"] } }

\* the notes open in the editor: an empty note, a note with an image that
\* was uploaded as private, and that note with a hand-written public
\* reference after it
EditorNotes ==
  { <<>>,
    <<"!", "[", "private", "]", "(", "ipfs://", "bafyOld", ")">>,
    <<"!", "[", "private", "]", "(", "ipfs://", "bafyOld", ")",
      "!", "[", "]", "(", "ipfs://", "ipfs://", "bafyPub", ")">> }

\* The user's edit of the open note reaches the vault.  No step of
\* processFile holds the note: an edit can be saved at any moment of a
\* pass, between its vault.read and the completion of its vault.modify.
\* The edit is recorded in the log of the user interface and in the log of
\* every pass over the note that is under way.
noteEdit ==
  /\ CanAct
  /\ cmd.kind = "file"
  /\ acts' = acts + 1
  /\ LET f == cmd.target
         e == Ev(0, "edit", "ok", f, 0, "typed")
     IN
     /\ vault' = [vault EXCEPT ![f] = Append(@, "typed")]
     /\ log' = [q \in 0..MaxRuns |->
                  IF q = 0 THEN Append(log[q], e)
                  ELSE IF pc[q] # "none" /\ file[q] = f
                  THEN Append(log[q], e)
                  ELSE log[q]]
     /\ last' = e
  /\ UNCHANGED <<settings, children, backups, notices, faults, runs, cmd,
                 bound, runVars, handlers, shown, editor, dom, pending, call, ticks,
                 clipboard>>

\* The plugin is loaded with its settings; the vault holds the note a.md
\* with one local image.
InitUI ==
  /\ settings \in UISettings
  /\ cmd = [kind |-> "file", target |-> "a.md", via |-> "palette"]
  /\ bound = [runs |-> MaxRuns, faults |-> 1]
  /\ children = TreeChildren
  /\ vault = [f \in MdFiles |->
                CASE f = "a.md" -> NoteOf(<<1>>)
                  [] f = "sub/b.md" -> NoteOf(<<2>>)
                  [] f = "sub/c.md" -> NoteOf(<<4>>)]
  /\ backups = {}
  /\ notices = <<>>
  /\ log = [r \in 0..MaxRuns |-> <<>>]
  /\ last = NoEv
  /\ faults = 0
  /\ runs = 0
  /\ NoRuns
  /\ handlers = registerHandlers(settings)
  /\ shown = settings.imageOptimization.enabled
  /\ clipboard = 1
  /\ editor \in EditorNotes
  /\ dom = <<>>
  /\ pending = {}
  /\ call = NoCall
  /\ acts = 0
  /\ ticks = 0

NextUI ==
  \/ CommandPalette
  \/ \E r \in Runs : LoopEnd(r)
  \/ \E r \in Runs : processFile_read(r)
  \/ \E r \in Runs : processFile_match(r)
  \/ \E r \in Runs : handleImageUpload(r)
  \/ \E r \in Runs : uploadToPinata_request(r)
  \/ \E r \in Runs : uploadToPinata_file(r)
  \/ \E r \in Runs : backupImage_exists(r)
  \/ \E r \in Runs : backupImage_createFolder(r)
  \/ \E r \in Runs : backupImage_readBinary(r)
  \/ \E r \in Runs : backupImage_createBinary(r)
  \/ \E r \in Runs : processFile_endLoop(r)
  \/ \E r \in Runs : processFile_modify(r)
  \/ SettingChange
  \/ display
  \/ editorPaste
  \/ editorDrop
  \/ uploadToPinata_start
  \/ editorUpload_request
  \/ editorUpload_file
  \/ postProcess
  \/ refreshTick
  \/ linkResponse
  \/ noteEdit

SpecUI == InitUI /\ [][NextUI]_vars

(***************************************************************************)
(* C15.  No secret in a note.                                              *)
(***************************************************************************)
\* the texts of the notes: the files of the vault and the editor
NoteTexts == { vault[f] : f \in MdFiles } \cup {editor}

\* the atoms of the bearer credential, of the signed upload URLs and of the
\* signed download URLs
SecretAtoms ==
  (Inputs.pinataJwt \cup {settings.pinataJwt}
     \cup { r.signData : r \in BadResponses \cup {GoodResponse("blob")} }
     \cup {Head(SignedUrl(<<>>))}) \ {""}

\* the img elements that hold a signed URL
SignedImgs == { i \in DOMAIN dom : Head(dom[i].src) \in SecretAtoms }

\* the text is one image whose path is ipfs://<cid>
IsIpfsLiteral(lit) ==
  /\ Len(matchAll(lit)) = 1
  /\ FullMatch(lit, matchAll(lit)[1]) = lit
  /\ Len(matchAll(lit)[1].path) = 2
  /\ Head(matchAll(lit)[1].path) = "ipfs://"

\* the step inserts one text into the editor, at some cursor, and the text
\* is an ipfs:// image
InsertsIpfsLiteral ==
  /\ Len(editor') > Len(editor)
  /\ \E cursor \in 0..Len(editor) :
       LET lit == SubSeq(editor', cursor + 1,
                         cursor + Len(editor') - Len(editor))
       IN /\ editor' = replaceRange(editor, lit, cursor)
          /\ IsIpfsLiteral(lit)

\* C15: no text of a note, written by the batch or inserted by the paste and
\* drop handlers, contains the bearer credential or a signed URL; every
\* text the handlers put into the editor is an ipfs:// reference, and the
\* signed URLs are in src attributes of the rendered document only.
C15_NoSecretInNotes ==
  /\ [](/\ \A t \in NoteTexts : \A i \in 1..Len(t) : t[i] \notin SecretAtoms
        /\ \A r \in Runs : \A t \in {content[r], newContent[r]} :
             \A i \in 1..Len(t) : t[i] \notin SecretAtoms)
  /\ [][editor' # editor => InsertsIpfsLiteral]_vars

\* a private image was pasted (its upload went to a signed URL with the
\* credential in the sign request) and the note was rendered: the literal
\* is in the editor, the signed URL in the src of the element
C15_Witness ==
  /\ \E i \in 1..Len(log[0]) :
       log[0][i].op = "paste" /\ log[0][i].st = "insert"
  /\ \E i \in 1..Len(log[0]) :
       log[0][i].op = "request" /\ log[0][i].arg \in SecretAtoms
  /\ SignedImgs # {}
  /\ Len(editor) > 0

(***************************************************************************)
(* C16.  The URL of a rendered image and its alt text.                     *)
(***************************************************************************)
\* the element waits for the answer of the download-link endpoint
Signing(i) == \E p \in pending : p.kind = "link" /\ p.el = i

\* the element has the URL that was computed for it
HasUrl(i) == dom[i].src \notin {<<"data:image/svg+xml">>, <<"undefined">>}

\* C16: the URL computed for a rendered ipfs:// image is of the kind its
\* alt text records: an image with the alt text "private" goes through the
\* signing endpoint and gets a signed URL of https://<gateway>/files/<cid>,
\* an image with another alt text makes no request and gets
\* https://<gateway>/ipfs/<cid>, whatever the visibility setting is.
C16_KindByAltText ==
  \A i \in DOMAIN dom :
    dom[i].hash # <<>> =>
      /\ Signing(i) => dom[i].private
      /\ HasUrl(i) =>
           IF dom[i].private
           THEN /\ Head(dom[i].src) = Head(SignedUrl(<<>>))
                /\ Includes(dom[i].src, "/files/")
           ELSE /\ Head(dom[i].src) = "https://"
                /\ Includes(dom[i].src, "/ipfs/")

(***************************************************************************)
(* C17.  The refresh interval.                                             *)
(***************************************************************************)
\* the calls of the refresh interval that wait for their answer
RefreshCalls(pd) == { p \in pd : p.kind = "link" /\ p.origin = "refresh" }

\* the step is the firing of the interval
IsTick == ticks' = ticks + 1

\* the step is the completion of a call of the interval
IsRefreshed == \E p \in RefreshCalls(pending) : pending' = pending \ {p}

\* the attributes of the element other than src
Attrs(img) ==
  [alt |-> img.alt, hash |-> img.hash, private |-> img.private,
   error |-> img.error]

\* the elements with the attribute data-pinata-private and a hash
MarkedPrivate == { i \in DOMAIN dom : dom[i].private /\ dom[i].hash # <<>> }

\* C17: a firing of the refresh interval recomputes the URL of exactly the
\* elements marked private, and the refresh changes nothing but their src:
\* in every step of the refresh, also while a batch is running, the notes,
\* the editor, the settings, the working text and the dedup map of
\* processFile and every other attribute and element stay as they are.
C17_RefreshFrame ==
  [][(IsTick \/ IsRefreshed) =>
       /\ vault' = vault
       /\ editor' = editor
       /\ settings' = settings
       /\ content' = content
       /\ newContent' = newContent
       /\ processedUrls' = processedUrls
       /\ matches' = matches
       /\ DOMAIN dom' = DOMAIN dom
       /\ \A i \in DOMAIN dom :
            /\ Attrs(dom'[i]) = Attrs(dom[i])
            /\ i \notin MarkedPrivate => dom'[i] = dom[i]
       /\ IsTick =>
            /\ settings.isPrivate =>
                 { p.el : p \in RefreshCalls(pending') \ RefreshCalls(pending) }
                   = MarkedPrivate
            /\ ~settings.isPrivate =>
                 \A i \in MarkedPrivate :
                   dom'[i].src = ComposedUrl(settings, dom[i].hash)
     ]_vars

\* the refresh of a private element has completed while the batch was
\* uploading: the element has its signed URL and another element of the
\* document is not marked
C17_Witness ==
  /\ ticks = 1
  /\ \E r \in Runs : pc[r] = "upload"
  /\ call.done
  /\ RefreshCalls(pending) = {}
  /\ \E i \in MarkedPrivate : Head(dom[i].src) = Head(SignedUrl(<<>>))
  /\ \E i \in DOMAIN dom : i \notin MarkedPrivate

(***************************************************************************)
(* C18.  Automatic upload on paste and on drop.                            *)
(***************************************************************************)
\* the step is a paste (origin "paste") or a drop (origin "drop") of an
\* image into the editor
IsEditorEvent(origin) ==
  /\ Len(log'[0]) = Len(log[0]) + 1
  /\ log'[0][Len(log'[0])].op = origin
  /\ log'[0][Len(log'[0])].st \in {"handler", "default"}

\* the step starts an upload of the image
StartsUpload == \E p \in pending' \ pending : p.kind = "upload"

\* C18: a paste of an image starts an upload exactly when the setting
\* "Auto-upload on Paste" is on at that time, and a drop exactly when
\* "Auto-upload on Drag & Drop" is on at that time, also after the setting
\* was changed in the settings tab.
C18_UploadIffEnabled ==
  [][/\ IsEditorEvent("paste") => (StartsUpload <=> settings.autoUploadPaste)
     /\ IsEditorEvent("drop") => (StartsUpload <=> settings.autoUploadDrag)
    ]_vars

(***************************************************************************)
(* C19.  constructIpfsUrl.                                                 *)
(***************************************************************************)
\* the text without the prefix, when it starts with it
StripPrefix(s, prefixes) ==
  IF s # <<>> /\ s[1] \in prefixes THEN SubSeq(s, 2, Len(s)) ELSE s

\* the gateway host of the settings: the default when none is given
GatewayHost(st) ==
  LET g == SelectSeq(st.pinataGateway, LAMBDA a : a # " ") IN
  StripPrefix(IF g = <<>> THEN DEFAULT_SETTINGS.pinataGateway ELSE g,
              {"http://", "https://"})

\* one parameter of the query, when it is enabled
Param(name, value, on) == IF on THEN <<<<name, "=", value>>>> ELSE <<>>

\* the parameters joined by "&"
RECURSIVE JoinParams(_)
JoinParams(ps) ==
  IF ps = <<>> THEN <<>>
  ELSE IF Len(ps) = 1 THEN ps[1]
  ELSE ps[1] \o <<"&">> \o JoinParams(Tail(ps))

\* the transformation parameters that are enabled, as query text: the
\* sizes and the quality that are given, a format other than auto and a
\* fit other than cover
QueryOf(o) ==
  IF ~o.enabled THEN <<>>
  ELSE <<"?">>
         \o JoinParams(Param("width", ToString(o.width), o.width > 0)
                         \o Param("height", ToString(o.height), o.height > 0)
                         \o Param("quality", ToString(o.quality),
                                  o.quality > 0)
                         \o Param("format", o.format, o.format # "auto")
                         \o Param("fit", o.fit, o.fit # "cover"))

\* the argument of the call is a CID, with or without the prefix ipfs://
GivenCid(c) ==
  LET cid == StripPrefix(c.hash, {"ipfs://"}) IN
  /\ Len(cid) = 1
  /\ cid[1] \notin {"!", "[", "]", "(", ")", "ipfs://"}

\* https://<gateway>/<kind>/<cid> with the query
ExpectedUrl(c, kind) ==
  <<"https://">> \o GatewayHost(c.st) \o <<kind>>
    \o StripPrefix(c.hash, {"ipfs://"}) \o QueryOf(c.st.imageOptimization)

\* C19: given a CID, in public mode constructIpfsUrl makes no request and returns
\* https://<gateway>/ipfs/<cid> with the enabled parameters; in private
\* mode it posts https://<gateway>/files/<cid> with the same parameters to
\* the download-link endpoint, with the credential, and returns the data of
\* the answer, or fails without a URL when the request fails.
C19_ConstructIpfsUrl ==
  (call.done /\ GivenCid(call)) =>
    IF ~call.st.isPrivate
    THEN /\ call.requests = <<>>
         /\ call.error = ""
         /\ call.url = ExpectedUrl(call, "/ipfs/")
    ELSE /\ Len(call.requests) = 1
         /\ call.requests[1].url = LinkEndpoint
         /\ call.requests[1].auth = call.st.pinataJwt
         /\ call.requests[1].body = ExpectedUrl(call, "/files/")
         /\ IF call.requests[1].answer = "http"
            THEN call.error # "" /\ call.url = <<>>
            ELSE /\ call.error = ""
                 /\ call.requests[1].answer = "ok" =>
                      call.url = SignedUrl(ExpectedUrl(call, "/files/"))
                 /\ call.requests[1].answer = "nodata" => call.url = <<>>

\* a private call with parameters, a gateway given as a URL and a hash
\* that still has its ipfs:// prefix has returned the signed URL
C19_Witness ==
  /\ call.done
  /\ GivenCid(call)
  /\ call.st.isPrivate
  /\ call.st.imageOptimization.enabled
  /\ Len(call.st.pinataGateway) > 1
  /\ Head(call.hash) = "ipfs://"
  /\ call.error = ""
  /\ call.url # <<>>

(***************************************************************************)
(* C20.  Remote references outside the known CDNs.                         *)
(***************************************************************************)
\* the extensions of the claim
PathExtensions ==
  {".jpg", ".jpeg", ".png", ".gif", ".webp", ".bmp", ".tiff", ".svg"}

\* C20: a reference that parses as an absolute URL whose hostname is not a
\* known CDN is downloaded and uploaded exactly when the path of the URL
\* ends in an image extension, whatever its query string is; else it is
\* skipped.  (Stated for the newest event of the log, the classification
\* of the match the loop has just looked at.)
C20_PathExtension ==
  (last.op = "match" /\ last.st \in {"remote", "skip"}) =>
    LET e == last
        decodedPath == decodeURIComponent(matches[e.run][e.idx].path)
    IN
    (ParsesAsUrl(decodedPath)
       /\ ~isKnownCdnDomain(URL[decodedPath[1]].hostname)) =>
      (e.st = "remote" <=> URL[decodedPath[1]].ext \in PathExtensions)

(***************************************************************************)
(* The batch over notes with a reference to a CDN.                         *)
(***************************************************************************)
\* the transformed URLs of the CDNs: one for every kind of case of
\* extractOriginalUrl
CdnUrls ==
  { "https://images.weserv.nl/?url=https://example.com/a.jpg",
    "https://images.weserv.nl/?url=example.com/a.jpg",
    "https://res.cloudinary.com/demo/image/upload/w_200,c_fill/v1/foo/bar.png",
    "https://demo.imgix.net/a.png?w=100",
    "https://i0.wp.com/example.com/a.jpg?w=100",
    "https://firebasestorage.googleapis.com/o/a.png?alt=media",
    "https://cdn.shopify.com/s/photo_master_100x100.jpg",
    "https://ucarecdn.com/uuid/-/resize/200x/",
    "https://app.vercel.app/_next/image?url=/a.png&w=640" }

\* As Init, with public or private uploads and with a note that holds one
\* reference to a CDN as a.md.
InitCdn ==
  /\ settings \in { [DEFAULT_SETTINGS EXCEPT !.pinataJwt = "jwt",
                                             !.isPrivate = p] :
                       p \in BOOLEAN }
  /\ cmd \in Commands
  /\ bound \in Bounds(cmd, settings)
  /\ children = TreeChildren
  /\ \E n \in { <<"hello ">> \o Wrap(<<"pic">>, <<u>>) \o <<" world">> :
                   u \in CdnUrls } :
       vault = [f \in MdFiles |->
                  CASE f = "a.md" -> n
                    [] f = "sub/b.md" -> NoteOf(<<2>>)
                    [] f = "sub/c.md" -> NoteOf(<<4>>)]
  /\ backups = {}
  /\ notices = <<>>
  /\ log = [r \in 0..MaxRuns |-> <<>>]
  /\ last = NoEv
  /\ faults = 0
  /\ runs = 0
  /\ NoRuns
  /\ handlers = registerHandlers(settings)
  /\ NoUI

SpecCdn == InitCdn /\ [][Next]_vars

\* the newest event of the log says that the loop has found a remote
\* reference to process: its idx is the match, its arg the URL that
\* extractOriginalUrl has returned
FoundRemote ==
  /\ last.op = "match"
  /\ last.st = "remote"

\* the reference of the newest event, as it stands in the note
Reference == decodeURIComponent(matches[last.run][last.idx].path)[1]

\* the URL the reference of the newest event is fetched as
Fetched == last.arg

(***************************************************************************)
(* C21.  Cloudinary.                                                       *)
(***************************************************************************)
\* C21: the Cloudinary reference with transformation and version segments
\* after "upload" is fetched without them and with its full asset path,
\* folders included.
C21_CloudinaryPath ==
  (FoundRemote
     /\ Reference =
          "https://res.cloudinary.com/demo/image/upload/w_200,c_fill/v1/foo/bar.png")
    => Fetched = "https://res.cloudinary.com/demo/image/upload/foo/bar.png"

(***************************************************************************)
(* C22.  Normalization of the CDN references.                              *)
(***************************************************************************)
\* C22: for a reference to a hostname extractOriginalUrl handles, the URL
\* it returns parses as an absolute URL and is returned unchanged by a
\* second application of extractOriginalUrl.
C22_NormalizationStable ==
  (FoundRemote /\ Reference \in CdnUrls) =>
    /\ isRemoteUrl(<<Fetched>>)
    /\ extractOriginalUrl(<<Fetched>>) = Fetched

(***************************************************************************)
(* C23.  The note is written once, at the end of the pass.                 *)
(***************************************************************************)
\* the calls of vault.modify of the pass, by log position
ModifyCalls(r) ==
  { k \in PassEvents(r) : log[r][k].op = "modify" /\ log[r][k].st = "start" }

\* C23: in a pass vault.modify is called at most once, after the loop has
\* reached every reference of the note, and only when a reference was
\* replaced after its upload or deduplicated and the working text differs
\* from the text that was read; a pass without an uploaded or deduplicated
\* reference never calls vault.modify.
C23_WriteOnce ==
  \A r \in Runs :
    /\ Cardinality(ModifyCalls(r)) <= 1
    /\ (last.run = r /\ last.op = "modify" /\ last.st = "start") =>
         /\ ReachedIdx(r) = 1..Len(matches[r])
         /\ ReplacedIdx(r) \cup DedupIdx(r) # {}
         /\ newContent[r] # content[r]
    /\ (LoopOver(r) /\ ReplacedIdx(r) \cup DedupIdx(r) = {}) => ModifyCalls(r) = {}

\* a note with two references was written after the second upload failed:
\* one call of vault.modify, after both references were reached
C23_Witness ==
  \E r \in Runs :
    /\ JustWritten(r)
    /\ Len(matches[r]) = 2
    /\ ReachedIdx(r) = {1, 2}
    /\ ReplacedIdx(r) = {1}
    /\ 2 \in FailedIdx(r)
    /\ Cardinality(ModifyCalls(r)) = 1


(***************************************************************************)
(* C24.  The marker of the literal and the protocol of the upload.         *)
(***************************************************************************)
\* the step inserts the literal of an uploaded image into the editor
IsInsert ==
  /\ Len(log'[0]) > Len(log[0])
  /\ last'.st = "insert"

\* the literal the step inserts has the alt text "private"
InsertsPrivate ==
  \E cursor \in 0..Len(editor) :
    editor' =
      SubSeq(editor, 1, cursor)
        \o <<"!", "[", "private", "]", "(", "ipfs://", last'.arg, ")">>
        \o SubSeq(editor, cursor + 1, Len(editor))

\* the requests of the upload the step completes: those of the event of
\* the insertion made since the previous image of the event was done
UploadRequests(lg) ==
  { i \in 1..Len(lg) :
      /\ lg[i].op = "request"
      /\ lg[i].idx = lg[Len(lg)].idx
      /\ \A j \in (i + 1)..(Len(lg) - 1) :
           ~(lg[j].idx = lg[i].idx /\ lg[j].st \in {"insert", "fail"}) }

\* the upload of the step went through the sign endpoint
SignedUpload ==
  \E i \in UploadRequests(log'[0]) : log'[0][i].arg = SignEndpoint

\* C24: the literal handleImageUpload returns is `![private](...)` exactly
\* when uploadToPinata has used the private protocol for the image, also
\* when the visibility setting is changed while the upload is in flight.
C24_MarkerMatchesProtocol ==
  [][IsInsert => (InsertsPrivate <=> SignedUpload)]_vars

(***************************************************************************)
(* C25.  Changes made to a note during a pass.                             *)
(***************************************************************************)
\* the events of the running pass that are edits of the note made after
\* the pass has read it
EditsAfterRead(r) ==
  {i \in PassEvents(r) :
     /\ log[r][i].op = "edit"
     /\ \E j \in PassEvents(r) : j < i /\ log[r][j].op = "read"}

\* C25: when the vault.modify of a pass has written the note, the note still
\* contains every change made to it between the pass's vault.read and that
\* write.
C25_NoLostChange ==
  \A r \in Runs :
    (last.run = r /\ last.op = "modify" /\ last.st = "ok") =>
      \A i \in EditsAfterRead(r) :
        \E k \in 1..Len(vault[file[r]]) : vault[file[r]][k] = log[r][i].arg

(***************************************************************************)
(* C26.  Attempts and successes for a path that occurs several times.      *)
(***************************************************************************)
\* the occurrences of the running pass at which an upload was attempted
AttemptedIdx(r) ==
  { log[r][i].idx :
      i \in { k \in PassEvents(r) :
                log[r][k].op = "match" /\ log[r][k].st \in {"local", "remote"} } }

\* an occurrence of a path that the pass uploads when it meets it first
Uploadable(r, k) == Classify(matches[r][k], <<>>) \in {"local", "remote"}

\* the occurrences of the path of k before j whose upload has succeeded
SucceededBefore(r, k, j) ==
  { i \in PassEvents(r) :
      /\ log[r][i].op = "upload" /\ log[r][i].st = "ok"
      /\ log[r][i].idx \in SamePath(r, k) /\ log[r][i].idx < j }

\* C26: for a decoded path that occurs N times in a note, processFile
\* attempts an upload at each occurrence until one attempt has succeeded
\* and at none afterwards: failed attempts are not put into the dedup map,
\* the attempts are between 1 and N, the successful uploads at most 1.
C26_AttemptsUntilSuccess ==
  \A r \in Runs :
    PassRead(r) =>
      \A k \in 1..Len(matches[r]) :
        Uploadable(r, k) =>
          /\ Cardinality(UploadsDone(r, SamePath(r, k))) <= 1
          /\ \A j \in SamePath(r, k) \cap ReachedIdx(r) :
               (j \in AttemptedIdx(r)) <=> (SucceededBefore(r, k, j) = {})
          /\ LoopOver(r) =>
               /\ Cardinality(SamePath(r, k) \cap AttemptedIdx(r)) >= 1
               /\ Cardinality(SamePath(r, k) \cap AttemptedIdx(r))
                    <= Cardinality(SamePath(r, k))

\* a pass over a note with two references to one remote image has gone
\* through its loop: at the first the image was downloaded and reading the
\* bytes of its blob failed before any request was sent, at the second the
\* upload was attempted again and succeeded
C26_Witness ==
  \E r \in Runs :
    /\ LoopOver(r)
    /\ settings.pinataJwt # ""
    /\ \E k \in 1..Len(matches[r]) :
         /\ Classify(matches[r][k], <<>>) = "remote"
         /\ Cardinality(SamePath(r, k)) = 2
         /\ SamePath(r, k) \subseteq AttemptedIdx(r)
         /\ Cardinality(UploadsDone(r, SamePath(r, k))) = 1
         /\ \E i \in PassEvents(r) :
              /\ log[r][i].op = "upload" /\ log[r][i].st = "fail"
              /\ log[r][i].idx = k
              /\ \A j \in PassEvents(r) :
                   log[r][j].op = "request" => log[r][j].idx # k

(***************************************************************************)
(* C27.  One backup write for an uploaded local reference.                 *)
(***************************************************************************)
\* C27: with backups enabled, a pass calls the backup write exactly once for
\* each local reference whose upload has succeeded, and never for a
\* reference whose upload has failed nor for a remote reference.
C27_BackupOnce ==
  \A r \in Runs :
    (LoopOver(r) /\ settings.backupOriginalImages) =>
      \A k \in 1..Len(matches[r]) :
        Cardinality(BackupsOf(r, k)) = IF k \in LocalReplacedIdx(r) THEN 1 ELSE 0

(***************************************************************************)
(* The editor alone: paste and drop events that carry up to MaxItems       *)
(* images, and the settings tab.                                           *)
(***************************************************************************)
InitEvt ==
  /\ settings \in { st \in UISettings :
                       /\ st.pinataGateway = <<>>
                       /\ ~st.imageOptimization.enabled }
  /\ cmd = [kind |-> "file", target |-> "a.md", via |-> "palette"]
  /\ bound = [runs |-> MaxRuns, faults |-> 1]
  /\ children = TreeChildren
  /\ vault = [f \in MdFiles |->
                CASE f = "a.md" -> NoteOf(<<1>>)
                  [] f = "sub/b.md" -> NoteOf(<<2>>)
                  [] f = "sub/c.md" -> NoteOf(<<4>>)]
  /\ backups = {}
  /\ notices = <<>>
  /\ log = [r \in 0..MaxRuns |-> <<>>]
  /\ last = NoEv
  /\ faults = 0
  /\ runs = 0
  /\ NoRuns
  /\ handlers = registerHandlers(settings)
  /\ shown = settings.imageOptimization.enabled
  /\ clipboard \in 1..MaxItems
  /\ editor = <<>>
  /\ dom = <<>>
  /\ pending = {}
  /\ call = NoCall
  /\ acts = 0
  /\ ticks = 0

NextEvt ==
  \/ SettingChange
  \/ display
  \/ editorPaste
  \/ editorDrop
  \/ uploadToPinata_start
  \/ editorUpload_request
  \/ editorUpload_file

SpecEvt == InitEvt /\ [][NextEvt]_vars

(***************************************************************************)
(* C28.  A paste or a drop of several images, one of which fails.          *)
(***************************************************************************)
\* the events of the log that belong to the paste or drop event el
EventLog(el) ==
  { i \in 1..Len(log[0]) :
      /\ log[0][i].file = "" /\ log[0][i].idx = el
      /\ log[0][i].op \in {"paste", "drop", "request"} }

\* the positions at which an upload of the event el has failed
FailedAt(el) ==
  { i \in EventLog(el) : log[0][i].op \in {"paste", "drop"} /\ log[0][i].st = "fail" }

\* the images that were inserted into the editor with the CID c
Inserted(c) ==
  { i \in 1..Len(log[0]) : log[0][i].st = "insert" /\ log[0][i].arg = c }

\* C28: handlePaste and handleDrop suppress the default handling of the
\* event before any upload starts; when the upload of one image of the
\* event fails, nothing is inserted for it, a notice is shown, the images
\* left in the event are neither uploaded nor inserted, and the images
\* already inserted stay in the editor: the editor, empty at the start,
\* holds every CID as often as an image with it was inserted.
C28_FailureEndsEvent ==
  /\ \A c \in {CidOf("blob"), CidOf("blob2")} :
       Cardinality({ p \in 1..Len(editor) : editor[p] = c })
         = Cardinality(Inserted(c))
  /\ \A el \in 1..MaxActs :
       /\ \A i \in EventLog(el) :
            log[0][i].op = "request" =>
              \E j \in EventLog(el) : j < i /\ log[0][j].st = "handler"
       /\ \A i \in FailedAt(el) :
            /\ \A j \in EventLog(el) : j <= i
            /\ \A p \in pending :
                 p.kind \in {"upload", "uploading", "signed"} => p.el # el
            /\ \E n \in 1..Len(notices) :
                 notices[n][1] = IF log[0][i].op = "paste"
                                 THEN "Failed to upload pasted image"
                                 ELSE "Failed to upload dropped image"

\* an event with two images: the first is in the editor, the second is
\* not, its upload has failed and a notice is shown
C28_Witness ==
  \E el \in 1..MaxActs :
    /\ FailedAt(el) # {}
    /\ \E k \in EventLog(el) :
         log[0][k].st = "insert" /\ log[0][k].arg = CidOf("blob")
    /\ \E p \in 1..Len(editor) : editor[p] = CidOf("blob")
    /\ \A p \in 1..Len(editor) : editor[p] # CidOf("blob2")
    /\ notices # <<>>
(***************************************************************************)
(* C29.  No error reaches the caller of a command.                         *)
(***************************************************************************)
\* the positions of the log of invocation r at which its command method
\* was started (st = "start"), has returned (st = "return"), has thrown to
\* its caller (st = "throw")
CommandEvents(r, st) ==
  { i \in 1..Len(log[r]) : log[r][i].op = "command" /\ log[r][i].st = st }

\* the failures of every invocation: of the enumeration of the files, of
\* vault reads and writes, of transfers, of backups and of the decoding of
\* a path
FailureEvents ==
  { p \in UNION { {<<r, i>> : i \in 1..Len(log[r])} : r \in Runs } :
      LET e == log[p[1]][p[2]] IN
      \/ e.op \in {"enumerate", "read", "modify", "download", "upload", "backup"}
           /\ e.st = "fail"
      \/ e.op = "match" /\ e.st = "throw" }

\* the notices by which processFile, processFolder and processAllFiles
\* report a failure
FailureNoticeTexts ==
  {"Failed to process", "Failed to process image in",
   "Failed to process remote image", "Failed to process local image",
   "Failed to backup image",
   "Failed to process folder", "Failed to process all files"}

AllFailureNotices ==
  { n \in 1..Len(notices) : notices[n][1] \in FailureNoticeTexts }

\* the notices of the success path of the buttons of the commands modal
SuccessNotices ==
  { n \in 1..Len(notices) :
      notices[n][1] \in {"Successfully processed current file",
                         "Successfully processed folder",
                         "Successfully processed all files"} }

\* the notices of the catch of the buttons of the commands modal
CaughtNotices ==
  { n \in 1..Len(notices) :
      notices[n][1] \in {"Failed to process file:",
                         "Failed to process folder:",
                         "Failed to process all files:"} }

\* C29: processFile, processFolder and processAllFiles never pass an error
\* on to their caller: every failure (of an image, of the read or the write
\* of a note, of the enumeration of the files) becomes a notice of the
\* method, no command method throws, and the button of the modal that
\* awaits the method always goes on to its success path and never to its
\* catch, also when a note could not be read or written.
C29_NoErrorToCaller ==
  /\ Cardinality(AllFailureNotices) = Cardinality(FailureEvents)
  /\ CaughtNotices = {}
  /\ cmd.via = "modal" =>
       Cardinality(SuccessNotices)
         = Cardinality({ r \in Runs : CommandEvents(r, "return") # {} })
  /\ \A r \in Runs :
       /\ CommandEvents(r, "throw") = {}
       /\ bpc[r] = "idle" =>
            /\ Cardinality(CommandEvents(r, "return"))
                 = Cardinality(CommandEvents(r, "start"))
            /\ \A i \in CommandEvents(r, "start") :
                 \E j \in CommandEvents(r, "return") :
                   /\ j > i
                   /\ \A k \in CommandEvents(r, "start") : k <= i \/ k > j

\* a command of the modal has returned to its button, which has shown its
\* success notice, after a note could not be read and another could not be
\* written
C29_Witness ==
  \E r \in Runs :
    /\ bpc[r] = "idle"
    /\ cmd.via = "modal"
    /\ SuccessNotices # {}
    /\ CommandEvents(r, "return") # {}
    /\ \E i \in 1..Len(log[r]) : log[r][i].op = "read" /\ log[r][i].st = "fail"
    /\ \E i \in 1..Len(log[r]) :
         log[r][i].op = "modify" /\ log[r][i].st = "fail"
    /\ \E n \in 1..Len(notices) : notices[n][1] = "Failed to process"

\* a command of the modal has returned to its button, which has shown its
\* success notice, after the enumeration of the files failed and the
\* method reported it
C29_WitnessEnumeration ==
  \E r \in Runs :
    /\ bpc[r] = "idle"
    /\ cmd.via = "modal"
    /\ SuccessNotices # {}
    /\ CommandEvents(r, "return") # {}
    /\ \E i \in 1..Len(log[r]) :
         log[r][i].op = "enumerate" /\ log[r][i].st = "fail"
    /\ \E n \in 1..Len(notices) :
         notices[n][1] \in {"Failed to process folder", "Failed to process all files"}

(***************************************************************************)
(* C30.  Termination of a pass and of a batch.                             *)
(***************************************************************************)
\* The steps of a running command are the disjuncts of CommandStepOf: each
\* is the continuation of an await on a vault operation or on an HTTP
\* request, or runs without waiting.  Every such operation returns in the
\* end, with a result or an error, and the event loop then runs the
\* continuation of the invocation that waits for it.

\* As Init, with backups on and public or private uploads.  A single
\* invocation runs any command on a.md with a local and a remote reference,
\* with one path twice or with two remote references; two overlapping
\* invocations are those of the palette command, with public uploads, on
\* the note with a local and a remote reference.
InitLive ==
  /\ settings \in { [DEFAULT_SETTINGS EXCEPT !.pinataJwt = "jwt",
                                             !.isPrivate = p,
                                             !.backupOriginalImages = TRUE] :
                       p \in BOOLEAN }
  /\ cmd \in Commands
  /\ bound \in Bounds(cmd, settings)
  /\ bound.runs = 1 \/ (~settings.isPrivate /\ cmd.kind = "file" /\ cmd.via = "palette")
  /\ children = TreeChildren
  /\ \E n \in (IF bound.runs = 1
               THEN { NoteOf(<<1, 4>>), NoteOf(<<1, 2>>), NoteOf(<<4, 5>>) }
               ELSE { NoteOf(<<1, 4>>) }) :
       vault = [f \in MdFiles |->
                  CASE f = "a.md" -> n
                    [] f = "sub/b.md" -> NoteOf(<<2>>)
                    [] f = "sub/c.md" -> NoteOf(<<4>>)]
  /\ backups = {}
  /\ notices = <<>>
  /\ log = [r \in 0..MaxRuns |-> <<>>]
  /\ last = NoEv
  /\ faults = 0
  /\ runs = 0
  /\ NoRuns
  /\ handlers = registerHandlers(settings)
  /\ NoUI

SpecLive ==
  InitLive /\ [][Next]_vars /\ \A r \in Runs : WF_vars(CommandStepOf(r))

\* the downloads, the uploads of the running pass of invocation r
TransfersOf(r, op) == { i \in PassEvents(r) : log[r][i].op = op }

\* the references the running pass has looked at
MatchEvents(r) == { i \in PassEvents(r) : log[r][i].op = "match" }

\* the downloads, the uploads and the references looked at in a pass are
\* at most the image references of the text read at its start
TransfersBounded(r) ==
  PassRead(r) =>
    /\ Cardinality(TransfersOf(r, "download")) <= Len(matchAll(content[r]))
    /\ Cardinality(TransfersOf(r, "upload")) <= Len(matchAll(content[r]))
    /\ Cardinality(MatchEvents(r)) <= Len(matchAll(content[r]))

\* C30: when every vault operation and every HTTP request returns in the
\* end, every processFile pass and every batch command comes to its end,
\* and a pass makes at most as many downloads and as many uploads as the
\* text read at its start has image references.  (An invocation that has
\* ended does not start again, and the user starts finitely many: every
\* pass and every command ends exactly when in the end none is running.)
C30_Terminates ==
  /\ <>[](\A r \in Runs : pc[r] = "none" /\ bpc[r] = "idle")
  /\ [](\A r \in Runs : TransfersBounded(r))

\* a batch has ended whose last pass has uploaded as many images as the
\* note has references, one of them downloaded before
C30_Witness ==
  \E r \in Runs :
    /\ bpc[r] = "idle" /\ pc[r] = "none"
    /\ PassRead(r)
    /\ Len(matchAll(content[r])) = 2
    /\ Cardinality(TransfersOf(r, "upload")) = 2
    /\ TransfersOf(r, "download") # {}

====
